---- MODULE Spec2Model ----
(***************************************************************************)
(* State-machine model of src/bot.py, the single-owner cartoon bot.        *)
(*                                                                         *)
(* The bot's handlers are coroutines run by the client library's worker    *)
(* tasks: a handler runs without interruption between two awaits, and at   *)
(* an await the handler of any other update may run.  Every action below   *)
(* is one such uninterrupted segment.  A handler that is suspended keeps   *)
(* its local variables in a record (runs for the playlist handler).        *)
(*                                                                         *)
(* Strings that the code takes apart (callback data, series names) are     *)
(* sequences of the tokens between underscores: "yt_season_new_A" is       *)
(* <<"yt", "season", "new", "A">>, and the series name "A" is <<"A">>.      *)
(* Python dicts are functions whose DOMAIN is the set of keys present.     *)
(***************************************************************************)
EXTENDS Integers, Sequences, FiniteSets, TLC

\* ------------------------------------------------------------------ bounds
\* Longest playlist the enumeration returns.
MaxPlaylist == 2
\* Number of playlist-URL messages handled (each may start a run).
MaxRuns == 2
\* Largest season number the owner types in a range.
MaxSeason == 2
\* Number of forwarded messages handled (each starts a handler).
MaxForwards == 3
\* Largest message id in the source channel.
MaxMsgId == 2

\* --------------------------------------------------------------- constants
OWNER_ID == 1
\* Python None where the value is otherwise a natural number.
None == -1
\* A playlist entry that yt_dlp could not resolve (None in 'entries').
NoEntry == 0

\* The value the /stop command stores: the string "stopped", which is not a dict.
STOPPED == [stopped |-> TRUE]

\* -------------------------------------------------------------- dict helpers
Has(d, k) == k \in DOMAIN d
Get(d, k, default) == IF k \in DOMAIN d THEN d[k] ELSE default
Put(d, k, v) == (k :> v) @@ d
Del(d, k) == [x \in DOMAIN d \ {k} |-> d[x]]
EmptyDict == [x \in {} |-> 0]

Min(a, b) == IF a < b THEN a ELSE b
Max(a, b) == IF a > b THEN a ELSE b

\* Python truth value of an optional number: None and 0 are false.
Truthy(x) == x # None /\ x # 0

\* str.startswith(prefix + "_") on token sequences.
StartsWith(data, prefix) ==
    /\ Len(data) > Len(prefix)
    /\ SubSeq(data, 1, Len(prefix)) = prefix

\* data[len(prefix) + 1:], the text after the prefix and its underscore.
After(data, prefix) == SubSeq(data, Len(prefix) + 1, Len(data))

\* data.replace(prefix + "_", ""): in the inputs modelled the prefix occurs
\* only at the start of data, where it is removed.
Replace(data, prefix) ==
    IF StartsWith(data, prefix) THEN After(data, prefix) ELSE data

\* seq[lo:hi] of Python, lo and hi 0-based and possibly negative; hi = None
\* stands for an omitted upper bound.
SliceIndex(i, n) == IF i < 0 THEN Max(n + i, 0) ELSE Min(i, n)

PySlice(s, lo, hi) ==
    LET n == Len(s)
        a == SliceIndex(lo, n)
        b == IF hi = None THEN n ELSE SliceIndex(hi, n)
    IN  SubSeq(s, a + 1, b)

\* [v for v in entries if v]
RECURSIVE FilterEntries(_)
FilterEntries(entries) ==
    IF entries = <<>> THEN <<>>
    ELSE IF Head(entries) = NoEntry THEN FilterEntries(Tail(entries))
         ELSE <<Head(entries)>> \o FilterEntries(Tail(entries))

\* ------------------------------------------------------------ title parsing
\* A title is the sequence of its characters.  The regular expressions of
\* extract_episode_info are matched as re.search matches them: at the
\* leftmost start position, every \d+ and \s* taking the longest run (no
\* shorter run can match, since what follows is never a digit or a space).
Digits == <<"0", "1", "2", "3", "4", "5", "6", "7", "8", "9">>

LowerCase ==
    <<"a", "b", "c", "d", "e", "f", "g", "h", "i", "j", "k", "l", "m",
      "n", "o", "p", "q", "r", "s", "t", "u", "v", "w", "x", "y", "z">>

UpperCase ==
    <<"A", "B", "C", "D", "E", "F", "G", "H", "I", "J", "K", "L", "M",
      "N", "O", "P", "Q", "R", "S", "T", "U", "V", "W", "X", "Y", "Z">>

Range(f) == {f[x] : x \in DOMAIN f}

DigitClass == Range(Digits)
SpaceClass == {" ", "\t"}
IsDigit(c) == c \in DigitClass
IsSpace(c) == c \in SpaceClass
\* \w, for the word boundaries of \b.
IsWord(c) == IsDigit(c) \/ c \in Range(LowerCase) \cup Range(UpperCase) \/ c = "_"

DigitValue(c) == CHOOSE d \in 0..9 : Digits[d + 1] = c

ToUpper(c) ==
    IF c \in Range(LowerCase)
    THEN UpperCase[CHOOSE k \in DOMAIN LowerCase : LowerCase[k] = c]
    ELSE c

\* title.upper()
Upper(s) == [i \in 1..Len(s) |-> ToUpper(s[i])]

\* int(digits)
RECURSIVE ToInt(_)
ToInt(ds) ==
    IF ds = <<>> THEN 0
    ELSE 10 * ToInt(SubSeq(ds, 1, Len(ds) - 1)) + DigitValue(ds[Len(ds)])

\* str(n)
RECURSIVE Str(_)
Str(n) ==
    IF n < 10 THEN <<Digits[n + 1]>>
    ELSE Str(n \div 10) \o <<Digits[(n % 10) + 1]>>

\* f"{n:02d}"
Format02(n) == IF n < 10 THEN <<"0">> \o Str(n) ELSE Str(n)

\* The position after the longest run of characters with P that starts at i.
RunEnd(s, i, class) ==
    IF i > Len(s) THEN i
    ELSE CHOOSE j \in i..(Len(s) + 1) :
            /\ \A k \in i..(j - 1) : s[k] \in class
            /\ j = Len(s) + 1 \/ s[j] \notin class

\* The literal w stands at position i.
At(s, i, w) ==
    /\ i + Len(w) - 1 <= Len(s)
    /\ SubSeq(s, i, i + Len(w) - 1) = w

Num(s, a, b) == ToInt(SubSeq(s, a, b - 1))

NoMatch == [ok |-> FALSE, groups |-> <<>>]
Matched(groups) == [ok |-> TRUE, groups |-> groups]

\* \s*(\d+) at position k.
SpacesDigits(s, k) ==
    LET a == RunEnd(s, k, SpaceClass)
        b == RunEnd(s, a, DigitClass)
    IN  IF b > a THEN Matched(<<Num(s, a, b)>>) ELSE NoMatch

\* Line 92: S(\d+)\s*E(\d+)
PatternSE(s, i) ==
    LET a == i + 1
        b == RunEnd(s, a, DigitClass)
        c == RunEnd(s, b, SpaceClass)
        e == RunEnd(s, c + 1, DigitClass)
    IN  IF At(s, i, <<"S">>) /\ b > a /\ At(s, c, <<"E">>) /\ e > c + 1
        THEN Matched(<<Num(s, a, b), Num(s, c + 1, e)>>)
        ELSE NoMatch

\* EP(?:ISODE)?\s*(\d+) at position j.
EpTail(s, j) ==
    IF ~ At(s, j, <<"E", "P">>) THEN NoMatch
    ELSE IF At(s, j + 2, <<"I", "S", "O", "D", "E">>) THEN SpacesDigits(s, j + 7)
    ELSE SpacesDigits(s, j + 2)

\* Line 93: SEASON\s*(\d+).*?EP(?:ISODE)?\s*(\d+)
PatternSeasonEp(s, i) ==
    LET a == RunEnd(s, i + 6, SpaceClass)
        b == RunEnd(s, a, DigitClass)
        tails == {j \in b..Len(s) : EpTail(s, j).ok}
    IN  IF At(s, i, <<"S", "E", "A", "S", "O", "N">>) /\ b > a /\ tails # {}
        THEN Matched(<<Num(s, a, b),
                       EpTail(s, CHOOSE j \in tails :
                                     \A k \in tails : j <= k).groups[1]>>)
        ELSE NoMatch

\* Line 94: (\d+)X(\d+)
PatternX(s, i) ==
    LET b == RunEnd(s, i, DigitClass)
        e == RunEnd(s, b + 1, DigitClass)
    IN  IF b > i /\ At(s, b, <<"X">>) /\ e > b + 1
        THEN Matched(<<Num(s, i, b), Num(s, b + 1, e)>>)
        ELSE NoMatch

\* Line 97: EP\.?\s*(\d+)
PatternEp(s, i) ==
    IF ~ At(s, i, <<"E", "P">>) THEN NoMatch
    ELSE IF At(s, i + 2, <<".">>) THEN SpacesDigits(s, i + 3)
    ELSE SpacesDigits(s, i + 2)

\* Line 98: EPISODE\s*(\d+)
PatternEpisode(s, i) ==
    IF At(s, i, <<"E", "P", "I", "S", "O", "D", "E">>)
    THEN SpacesDigits(s, i + 7)
    ELSE NoMatch

\* A literal, then (\d+), then the literals in close (none when close = {}).
Enclosed(s, i, open, close) ==
    LET e == RunEnd(s, i + 1, DigitClass)
    IN  IF /\ At(s, i, <<open>>)
           /\ e > i + 1
           /\ close # {} => e <= Len(s) /\ s[e] \in close
        THEN Matched(<<Num(s, i + 1, e)>>)
        ELSE NoMatch

\* Line 99: E(\d+)
PatternE(s, i) == Enclosed(s, i, "E", {})
\* Line 100: \[(\d+)\]
PatternBracket(s, i) == Enclosed(s, i, "[", {"]"})
\* Line 101: #(\d+)
PatternHash(s, i) == Enclosed(s, i, "#", {})

\* \s*(\d+)\s*[...] at position k, the closing character one of close.
SpacedNumber(s, k, close) ==
    LET a == RunEnd(s, k, SpaceClass)
        b == RunEnd(s, a, DigitClass)
        c == RunEnd(s, b, SpaceClass)
    IN  IF b > a /\ c <= Len(s) /\ s[c] \in close
        THEN Matched(<<Num(s, a, b)>>)
        ELSE NoMatch

\* Line 102: -\s*(\d+)\s*-
PatternDashes(s, i) ==
    IF At(s, i, <<"-">>) THEN SpacedNumber(s, i + 1, {"-"}) ELSE NoMatch

\* Line 103: ^\s*(\d+)\s*[-.]
PatternLeading(s, i) ==
    IF i = 1 THEN SpacedNumber(s, 1, {"-", "."}) ELSE NoMatch

\* Line 114: \b(\d+)\b
PatternBare(s, i) ==
    LET b == RunEnd(s, i, DigitClass)
    IN  IF /\ b > i
           /\ i = 1 \/ ~ IsWord(s[i - 1])
           /\ b > Len(s) \/ ~ IsWord(s[b])
        THEN Matched(<<Num(s, i, b)>>)
        ELSE NoMatch

\* re.search(pattern, s): the match at the leftmost position that has one.
Search(at) ==
    LET hits == {i \in DOMAIN at : at[i].ok}
    IN  IF hits = {} THEN NoMatch
        ELSE at[CHOOSE i \in hits : \A j \in hits : i <= j]

\* The formatters of lines 92-94 and of lines 97-103.
SeasonForm(m) ==
    <<<<"S">> \o Format02(m.groups[1]) \o <<"E">> \o Format02(m.groups[2]),
      m.groups[1], m.groups[2]>>

EpisodeForm(m) == <<Format02(m.groups[1]), 1, m.groups[1]>>

DefaultEpisode == <<<<"0", "1">>, 1, 1>>

\* Lines 106-119: the first pattern, in the order of the list, that matches;
\* then the first bare number, when it is in 1..999; then the default.
extract_episode_info(title) ==
    LET s == Upper(title)
        pos == 1..Len(s)
        se == Search([i \in pos |-> PatternSE(s, i)])
        season == Search([i \in pos |-> PatternSeasonEp(s, i)])
        x == Search([i \in pos |-> PatternX(s, i)])
        ep == Search([i \in pos |-> PatternEp(s, i)])
        episode == Search([i \in pos |-> PatternEpisode(s, i)])
        e == Search([i \in pos |-> PatternE(s, i)])
        bracket == Search([i \in pos |-> PatternBracket(s, i)])
        hash == Search([i \in pos |-> PatternHash(s, i)])
        dashes == Search([i \in pos |-> PatternDashes(s, i)])
        leading == Search([i \in pos |-> PatternLeading(s, i)])
        bare == Search([i \in pos |-> PatternBare(s, i)])
    IN  IF se.ok THEN SeasonForm(se)
        ELSE IF season.ok THEN SeasonForm(season)
        ELSE IF x.ok THEN SeasonForm(x)
        ELSE IF ep.ok THEN EpisodeForm(ep)
        ELSE IF episode.ok THEN EpisodeForm(episode)
        ELSE IF e.ok THEN EpisodeForm(e)
        ELSE IF bracket.ok THEN EpisodeForm(bracket)
        ELSE IF hash.ok THEN EpisodeForm(hash)
        ELSE IF dashes.ok THEN EpisodeForm(dashes)
        ELSE IF leading.ok THEN EpisodeForm(leading)
        ELSE IF bare.ok /\ bare.groups[1] >= 1 /\ bare.groups[1] <= 999
        THEN EpisodeForm(bare)
        ELSE DefaultEpisode

\* A missing caption or file name (None, or the empty string: both are false).
NoText == <<>>

\* Captions of forwarded messages: "S2E1", "ep 2", "s0e3" and "x".
Titles ==
    {<<"S", "2", "E", "1">>, <<"e", "p", " ", "2">>,
     <<"s", "0", "e", "3">>, <<"x">>}

\* Line 1047: message.caption or file_name or "Video"
TitleOf(m) ==
    IF m.caption # NoText THEN m.caption
    ELSE IF m.file_name # NoText THEN m.file_name
    ELSE <<"V", "i", "d", "e", "o">>

\* ------------------------------------------------------------------ inputs
\* Series names the owner types or that the menus offer.
Names == {<<"A">>}

\* Callback data of the bot's keyboards: the main menu (lines 296-305), and
\* the buttons the menus build for a series name (lines 412-433, 599-601).
MenuButtons ==
    {<<"add", "cartoon">>, <<"download", "yt">>, <<"forward", "channel">>,
     <<"auto", "forward">>, <<"list", "cartoons">>, <<"remove", "cartoon">>,
     <<"back", "menu">>}

ButtonsFor(n) ==
    {<<"yt">> \o n, <<"yt", "season", "new">> \o n,
     <<"yt", "season", "continue">> \o n, <<"yt", "season", "range">> \o n,
     <<"fwd">> \o n, <<"fwd", "lang">> \o n, <<"fwd", "nolang">> \o n,
     <<"auto">> \o n, <<"del">> \o n}

\* The keyboard sent when an auto-forward source was stored (lines 1139-1142).
AutoButtonsFor(n) == {<<"auto", "lang">> \o n, <<"auto", "done">> \o n}

SkipButton == <<"skip", "thumbnail">>

\* What yt_dlp's flat extraction can return in 'entries': videos 1..n in
\* playlist order, any of them possibly unresolved.
Playlists ==
    UNION {{[i \in 1..n |-> IF i \in holes THEN NoEntry ELSE i] :
               holes \in SUBSET (1..n)} : n \in 0..MaxPlaylist}

\* Messages forwarded from a channel: the chat and message id they come from,
\* what they carry (a video, a document with a video mime type, or anything
\* else), and the caption and file name, either of which may be missing.
Chats == {"source", "other"}
MsgIds == 1..MaxMsgId

ForwardedMessages ==
    {[kind |-> "forward", chat |-> c, id |-> i, media |-> md,
      caption |-> cap, file_name |-> fn] :
        c \in Chats, i \in MsgIds, md \in {"video", "document", "other"},
        cap \in Titles \cup {NoText}, fn \in {NoText, <<"7">>}}

\* Private messages of the owner.  A "text" message is plain text that is
\* neither a number nor a URL nor a command; the other kinds say what the
\* code's tests on message.text find.
Messages ==
    {[kind |-> "text", name |-> n] : n \in Names}
    \cup {[kind |-> k] : k \in {"digits", "url", "slash", "done", "photo"}}
    \cup {[kind |-> "range", season |-> s, ep_start |-> a, ep_end |-> b] :
             s \in 0..MaxSeason, a \in 0..MaxPlaylist + 1,
             b \in {None} \cup (0..MaxPlaylist + 1)}
    \cup ForwardedMessages

HasText(m) == m.kind \in {"text", "digits", "url", "slash", "done", "range"}
\* re.match(r'(\d+):(\d+)-(\d+)?', text) succeeds; the message's fields are
\* the integers of its groups, ep_end = None when the third group is empty.
IsRange(m) == m.kind = "range"
\* message.text.startswith('/'): "done" is the text "/done", "slash" any other.
IsCommand(m) == m.kind \in {"slash", "done"}
IsDone(m) == m.kind = "done"
\* message.forward_from_chat is set.
IsForwarded(m) == m.kind = "forward"
IsYouTubeUrl(m) == m.kind = "url"
IsChannelId(m) == m.kind = "digits"

\* ------------------------------------------------------------------- state
VARIABLES
    cartoons,           \* the cartoons dict: name -> series record
    saved,              \* the contents of cartoons.json
    current_operation,  \* the current_operation dict, keyed by user id
    pending,            \* short handlers suspended before their final del
    runs,               \* playlist handlers: their local variables and position,
                        \* with what the awaited call last did (event) and
                        \* whether a /stop was handled during the item loop
    channel,            \* posts in the series' channel: item -> number of posts
    urls_left,          \* playlist URLs the owner is still going to send
    offered,            \* the series names whose buttons are on the owner's screen
    forward_sessions,   \* the forward_sessions dict: user id -> session object
    sessions,           \* the session objects created so far, by identity
    forwards,           \* handlers of forwarded messages: locals and position
    posted,             \* per session: source message id -> posts made for it
    forwards_left       \* forwarded messages the owner is still going to send

\* The state of the forward flow.
forward_vars == <<forward_sessions, sessions, forwards, posted, forwards_left>>

vars == <<cartoons, saved, current_operation, pending, runs, channel,
          urls_left, offered, forward_sessions, sessions, forwards, posted,
          forwards_left>>

\* The buttons the owner can press: the main menu, and for every series that
\* was ever in cartoons the buttons the menus built for it (opening a menu
\* changes nothing, and old keyboards stay on the screen); the skip button
\* comes with the first series added (line 694).  offered holds
\* <<"series", n>> once n was added and <<"auto", n>> once an auto-forward
\* source was stored for n.
Available ==
    MenuButtons
        \cup UNION {ButtonsFor(n) : n \in {x \in Names : <<"series", x>> \in offered}}
        \cup UNION {AutoButtonsFor(n) : n \in {x \in Names : <<"auto", x>> \in offered}}
        \cup (IF offered = {} THEN {} ELSE {SkipButton})

RunIds == 1..MaxRuns

IdleRun ==
    [pc |-> "idle", cartoon_name |-> <<>>, season |-> 1, ep_start |-> 1,
     ep_end |-> None, entries |-> <<>>, videos |-> <<>>, total |-> 0,
     idx |-> 0, success_count |-> 0, failed_count |-> 0, current_ep |-> 0,
     file |-> 0, files |-> {}, published |-> <<>>, status |-> "none",
     how |-> "none", stop_handled |-> FALSE, event |-> "none"]

FwdIds == 1..MaxForwards

\* The locals of a handler of a forwarded message: of the session setup
\* (lines 947-958) and of the processing of one message (lines 1009-1050).
IdleForward ==
    [pc |-> "idle", cartoon |-> <<>>, series_name |-> <<>>, audio_lang |-> "None",
     source |-> "None", dest_channel |-> 0, thumbnail |-> "None", sid |-> 0,
     msg_id |-> 0, media |-> "None", title |-> <<>>, ep_info |-> <<>>,
     season |-> 1, ep_num |-> 0, event |-> "none"]

\* A playlist handler between its first await and its return.
Active(r) == r.pc \notin {"idle", "returned", "raised"}

\* The handler is inside the item loop (an item is in flight or about to be).
InLoop(r) == r.pc \in {"dl_status", "dl_err_edit", "uploading", "sleep"}

IsDict(v) == ~ Has(v, "stopped")

\* save_cartoons(): json.dump of the whole dict.
SaveCartoons(c) == c

Items == 1..MaxPlaylist

\* The handler has returned (or ended by an exception): its locals are gone.
Finish(r, pc, how, status) ==
    [IdleRun EXCEPT !.pc = pc, !.how = how, !.status = status]

\* The state after the module is loaded and load_cartoons() found no file.
Fresh ==
    /\ cartoons = EmptyDict
    /\ saved = EmptyDict
    /\ current_operation = EmptyDict
    /\ pending = {}
    /\ runs = [rid \in RunIds |-> IdleRun]
    /\ channel = [i \in Items |-> 0]
    /\ offered = {}
    /\ forward_sessions = EmptyDict
    /\ sessions = <<>>
    /\ forwards = [fid \in FwdIds |-> IdleForward]
    /\ posted = <<>>

Init ==
    /\ Fresh
    /\ urls_left = 1
    /\ forwards_left = 2

\* ------------------------------------------------------------ /stop command
\* stop_operation: an entry, whatever it is, is replaced by "stopped".
StopValue == STOPPED

stop_operation ==
    /\ IF Has(current_operation, OWNER_ID)
       THEN current_operation' = Put(current_operation, OWNER_ID, StopValue)
       ELSE UNCHANGED current_operation
    /\ runs' = [rid \in RunIds |->
                  IF InLoop(runs[rid]) /\ Has(current_operation, OWNER_ID)
                  THEN [runs[rid] EXCEPT !.stop_handled = TRUE]
                  ELSE runs[rid]]
    /\ UNCHANGED <<cartoons, saved, pending, channel, urls_left, offered, forward_vars>>

\* --------------------------------------------------------- callback handler
\* Lines 684-691.
NewSeries(name, channel_id) ==
    [channel_id |-> channel_id, series_name |-> name, thumbnail |-> "None",
     last_episode |-> 0, last_season |-> 1, auto_forward |-> <<>>]

\* The branch of callback_handler's if/elif chain that runs for the data: the
\* first one, in the order of the source, whose test holds.
CallbackBranch(data) ==
    IF data = <<"add", "cartoon">> THEN "add_cartoon"
    ELSE IF data = <<"download", "yt">> THEN "download_yt"
    ELSE IF StartsWith(data, <<"yt">>) THEN "yt_"
    ELSE IF StartsWith(data, <<"yt", "season", "new">>) THEN "yt_season_new_"
    ELSE IF StartsWith(data, <<"yt", "season", "continue">>) THEN "yt_season_continue_"
    ELSE IF StartsWith(data, <<"yt", "season", "range">>) THEN "yt_season_range_"
    ELSE IF data = <<"forward", "channel">> THEN "forward_channel"
    ELSE IF StartsWith(data, <<"fwd">>) THEN "fwd_"
    ELSE IF StartsWith(data, <<"fwd", "lang">>) THEN "fwd_lang_"
    ELSE IF StartsWith(data, <<"fwd", "nolang">>) THEN "fwd_nolang_"
    ELSE IF data = <<"auto", "forward">> THEN "auto_forward"
    ELSE IF StartsWith(data, <<"auto">>) THEN "auto_"
    ELSE IF data = <<"list", "cartoons">> THEN "list_cartoons"
    ELSE IF data = <<"remove", "cartoon">> THEN "remove_cartoon"
    ELSE IF StartsWith(data, <<"del">>) THEN "del_"
    ELSE IF data = <<"back", "menu">> THEN "back_menu"
    ELSE IF data = <<"skip", "thumbnail">> THEN "skip_thumbnail"
    ELSE "none"

\* Branches that store a new operation entry, and the entry each stores.
StoringBranches ==
    {"add_cartoon", "yt_", "yt_season_new_", "yt_season_continue_",
     "yt_season_range_", "fwd_", "fwd_lang_", "fwd_nolang_", "auto_"}

OperationForCallback(branch, data) ==
    CASE branch = "add_cartoon" -> [step |-> "awaiting_name"]
      [] branch = "yt_" ->
            [step |-> "awaiting_yt_url", cartoon |-> After(data, <<"yt">>)]
      [] branch = "yt_season_new_" ->
            [step |-> "awaiting_yt_url",
             cartoon |-> Replace(data, <<"yt", "season", "new">>),
             season |-> 1, episode_start |-> 1]
      [] branch = "yt_season_continue_" ->
            LET name == Replace(data, <<"yt", "season", "continue">>)
            IN  [step |-> "awaiting_yt_url", cartoon |-> name,
                 season |-> cartoons[name].last_season,
                 episode_start |-> cartoons[name].last_episode + 1]
      [] branch = "yt_season_range_" ->
            [step |-> "awaiting_yt_range",
             cartoon |-> Replace(data, <<"yt", "season", "range">>)]
      [] branch = "fwd_" ->
            [step |-> "awaiting_forward_msg", cartoon |-> After(data, <<"fwd">>)]
      [] branch = "fwd_lang_" ->
            [step |-> "awaiting_forward_lang",
             cartoon |-> Replace(data, <<"fwd", "lang">>)]
      [] branch = "fwd_nolang_" ->
            [step |-> "awaiting_forward_msg",
             cartoon |-> Replace(data, <<"fwd", "nolang">>),
             audio_lang |-> "None"]
      [] branch = "auto_" ->
            [step |-> "awaiting_auto_source", cartoon |-> After(data, <<"auto">>)]

\* The branch raises before it stores anything: add_cartoon awaits its
\* edit_text first, yt_season_continue_ reads cartoons[cartoon_name].
BranchRaises(branch, data, edit_ok) ==
    \/ branch = "add_cartoon" /\ ~ edit_ok
    \/ /\ branch = "yt_season_continue_"
       /\ ~ Has(cartoons, Replace(data, <<"yt", "season", "continue">>))

\* The skip_thumbnail branch up to its await: the series of the current
\* operation, when there is one to update (a missing entry, or the string
\* "stopped", makes the first line raise).
SkipThumbnailApplies ==
    /\ Has(current_operation, OWNER_ID)
    /\ IsDict(current_operation[OWNER_ID])
    /\ Has(current_operation[OWNER_ID], "cartoon")
    /\ Has(cartoons, current_operation[OWNER_ID].cartoon)

\* The handler for one button press: data is the callback data, edit_ok
\* tells whether the branch's edit_text succeeds.
handle_callback(data, edit_ok) ==
        LET branch == CallbackBranch(data) IN
        IF branch \in StoringBranches
        THEN /\ current_operation' =
                    IF BranchRaises(branch, data, edit_ok)
                    THEN current_operation
                    ELSE Put(current_operation, OWNER_ID,
                             OperationForCallback(branch, data))
             /\ UNCHANGED <<cartoons, saved, pending, runs, channel, urls_left, offered, forward_vars>>
        ELSE IF branch = "del_"
        THEN /\ IF Has(cartoons, After(data, <<"del">>))
                THEN /\ cartoons' = Del(cartoons, After(data, <<"del">>))
                     /\ saved' = SaveCartoons(cartoons')
                ELSE UNCHANGED <<cartoons, saved>>
             /\ UNCHANGED <<current_operation, pending, runs, channel, urls_left, offered, forward_vars>>
        ELSE IF branch = "skip_thumbnail"
        THEN /\ IF SkipThumbnailApplies
                THEN /\ cartoons' = [cartoons EXCEPT
                           ![current_operation[OWNER_ID].cartoon].thumbnail = "None"]
                     /\ saved' = SaveCartoons(cartoons')
                     /\ pending' = pending \cup {"skip_thumbnail"}
                ELSE UNCHANGED <<cartoons, saved, pending>>
             /\ UNCHANGED <<current_operation, runs, channel, urls_left, offered, forward_vars>>
        ELSE UNCHANGED vars

callback_handler ==
    \E data \in Available, edit_ok \in BOOLEAN : handle_callback(data, edit_ok)

\* The rest of skip_thumbnail after its await of edit_text: unless that
\* raised, the entry present now is deleted.
skip_thumbnail_resume ==
    /\ "skip_thumbnail" \in pending
    /\ pending' = pending \ {"skip_thumbnail"}
    /\ \E edit_ok \in BOOLEAN :
          current_operation' =
              IF edit_ok THEN Del(current_operation, OWNER_ID)
              ELSE current_operation
    /\ UNCHANGED <<cartoons, saved, runs, channel, urls_left, offered, forward_vars>>

\* --------------------------------------------------- playlist run: helpers
\* SelectVideos with the slice started one item late (ep_start for ep_start - 1).
SelectVideosOffByOne(entries, ep_start, ep_end) ==
    LET videos == FilterEntries(entries)
    IN  IF Truthy(ep_end) THEN PySlice(videos, ep_start, ep_end)
        ELSE IF ep_start > 1 THEN PySlice(videos, ep_start, None)
        ELSE videos

\* Lines 793-800: the candidate items, unresolved entries dropped and the
\* episode range applied.
SelectVideos(entries, ep_start, ep_end) ==
    LET videos == FilterEntries(entries)
    IN  IF Truthy(ep_end) THEN PySlice(videos, ep_start - 1, ep_end)
        ELSE IF ep_start > 1 THEN PySlice(videos, ep_start - 1, None)
        ELSE videos

\* current_operation.get(user_id) == "stopped"
StopObserved ==
    /\ Has(current_operation, OWNER_ID)
    /\ ~ IsDict(current_operation[OWNER_ID])

\* The head of the for loop (lines 827-841): the loop ends when the items
\* are exhausted, breaks when the stop value is seen, and otherwise starts
\* the next item by awaiting the "Downloading" status edit.
LoopHead(r) ==
    IF r.idx >= r.total THEN [r EXCEPT !.pc = "final_edit", !.how = "complete"]
    ELSE IF StopObserved THEN [r EXCEPT !.pc = "stop_edit"]
    ELSE [r EXCEPT !.idx = @ + 1, !.pc = "dl_status"]

\* DownloadFailed with line 895 (current_ep += 1) run for a failed download too.
DownloadFailedSkipsEpisode(r) ==
    [r EXCEPT !.failed_count = @ + 1, !.current_ep = @ + 1]

\* Lines 896-897: the download gave nothing usable.
DownloadFailed(r) == [r EXCEPT !.failed_count = @ + 1]

\* UploadFailed for a handler that tries the item again, from its download,
\* until the upload succeeds.
UploadFailedRetriesItem(r) == [r EXCEPT !.pc = "dl_status"]

\* UploadFailed without the inner try: the exception reaches the outer except
\* block and ends the run.
UploadFailedAborts(r) == [r EXCEPT !.failed_count = @ + 1, !.pc = "except_edit"]

\* Lines 890-893: send_video (or the bookkeeping after it) raised.
UploadFailed(r) == [r EXCEPT !.failed_count = @ + 1, !.pc = "sleep"]

\* Uploaded for a send_video that gives up when /stop has been handled in
\* the meantime.
UploadedUnlessStopped(r) ==
    IF StopObserved THEN r
    ELSE [r EXCEPT !.success_count = @ + 1,
                   !.published = Append(@, [item |-> r.videos[r.idx], file |-> r.file,
                                            ep |-> r.current_ep, season |-> r.season])]

\* Line 877, with the post that send_video made in the channel.
Uploaded(r) ==
    [r EXCEPT !.success_count = @ + 1,
              !.published = Append(@, [item |-> r.videos[r.idx], file |-> r.file,
                                       ep |-> r.current_ep, season |-> r.season])]

\* send_video returned: one more post for the item in the channel.
Post(ch, item) == [ch EXCEPT ![item] = @ + 1]

\* Lines 880-881.
RecordEpisode(c, name, ep, season) ==
    [c EXCEPT ![name].last_episode = ep, ![name].last_season = season]

\* Lines 885-888: os.remove(result['file']).
RemoveFile(r) == [r EXCEPT !.files = @ \ {r.file}]

\* Line 895.
NextEpisode(r) == [r EXCEPT !.current_ep = @ + 1]

\* Lines 923-924.
Release(op) == IF Has(op, OWNER_ID) THEN Del(op, OWNER_ID) ELSE op

\* Lines 764-768: the handler's locals, read from the operation entry.
StartRun(operation) ==
    [IdleRun EXCEPT !.pc = "starting",
                    !.cartoon_name = operation["cartoon"],
                    !.season = Get(operation, "season", 1),
                    !.ep_start = Get(operation, "episode_start", 1),
                    !.ep_end = Get(operation, "episode_end", None)]

SetRun(rid, r) == runs' = [runs EXCEPT ![rid] = r]

\* ----------------------------------------------------- playlist run: steps
\* Suspended at line 778 (reply_text); then lines 780-813.
run_fetch(rid) ==
    LET r == runs[rid] IN
    /\ r.pc = "starting"
    /\ \/ SetRun(rid, Finish(r, "raised", "crashed", r.status))
       \/ SetRun(rid, [r EXCEPT !.pc = "except_edit", !.status = "starting",
                                !.event = "extract_raised"])
       \/ SetRun(rid, [r EXCEPT !.pc = "rejecting", !.status = "starting",
                                !.event = "not_a_playlist"])
       \/ \E entries \in Playlists :
             LET videos == SelectVideos(entries, r.ep_start, r.ep_end)
             IN  SetRun(rid, [r EXCEPT !.entries = entries, !.videos = videos,
                                       !.total = Len(videos), !.status = "starting",
                                       !.event = "extracted",
                                       !.pc = IF Len(videos) = 0 THEN "rejecting"
                                              ELSE "found"])
    /\ UNCHANGED <<cartoons, saved, current_operation, pending, channel, urls_left, offered, forward_vars>>

\* run_rejecting without the return of lines 791 and 806: the handler goes on
\* to the series lookup and the loop.
run_rejecting_falls_through(rid) ==
    LET r == runs[rid] IN
    /\ r.pc = "rejecting"
    /\ SetRun(rid, LoopHead([r EXCEPT !.status = "rejected",
                                      !.current_ep = r.ep_start]))
    /\ UNCHANGED <<cartoons, saved, current_operation, pending, channel, urls_left, offered, forward_vars>>

\* Suspended at line 787 or 805 (status edit of a setup rejection); the
\* handler then returns from inside the try block.
run_rejecting(rid) ==
    LET r == runs[rid] IN
    /\ r.pc = "rejecting"
    /\ \/ SetRun(rid, Finish(r, "returned", "rejected", "rejected"))
       \/ SetRun(rid, [r EXCEPT !.pc = "except_edit", !.event = "edit_raised"])
    /\ UNCHANGED <<cartoons, saved, current_operation, pending, channel, urls_left, offered, forward_vars>>

\* Suspended at line 808 (status edit "Found n videos"); then lines 815-841.
run_found(rid) ==
    LET r == runs[rid] IN
    /\ r.pc = "found"
    /\ \/ SetRun(rid, [r EXCEPT !.pc = "except_edit", !.event = "edit_raised"])
       \/ IF Has(cartoons, r.cartoon_name)
          THEN SetRun(rid, LoopHead([r EXCEPT !.status = "found", !.event = "edited",
                                              !.current_ep = r.ep_start]))
          ELSE SetRun(rid, [r EXCEPT !.status = "found", !.pc = "except_edit",
                                     !.event = "no_series"])
    /\ UNCHANGED <<cartoons, saved, current_operation, pending, channel, urls_left, offered, forward_vars>>

\* Suspended at line 829 (status edit "Stopped by user"); then break.
run_stop_edit(rid) ==
    LET r == runs[rid] IN
    /\ r.pc = "stop_edit"
    /\ \/ SetRun(rid, [r EXCEPT !.pc = "final_edit", !.how = "stopped",
                                !.status = "stopped", !.event = "edited"])
       \/ SetRun(rid, [r EXCEPT !.pc = "except_edit", !.event = "edit_raised"])
    /\ UNCHANGED <<cartoons, saved, current_operation, pending, channel, urls_left, offered, forward_vars>>

\* Suspended at line 837 (status edit "Downloading"); then the download,
\* which blocks, and lines 848-866.
run_download(rid) ==
    LET r == runs[rid]
        s == [r EXCEPT !.status = "downloading"]
        item == r.videos[r.idx]
    IN
    /\ r.pc = "dl_status"
    /\ \/ SetRun(rid, [r EXCEPT !.pc = "except_edit", !.event = "edit_raised"])
       \/ SetRun(rid, LoopHead(DownloadFailed([s EXCEPT !.event = "download_none"])))
       \/ SetRun(rid, [s EXCEPT !.pc = "dl_err_edit", !.event = "download_raised"])
       \/ SetRun(rid, [s EXCEPT !.files = @ \cup {item}, !.file = item,
                                !.pc = "uploading", !.event = "download_ok"])
       \/ IF r.files = {}
          THEN SetRun(rid, LoopHead(DownloadFailed(
                               [s EXCEPT !.event = "download_no_file"])))
          ELSE \E f \in r.files :
                  SetRun(rid, [s EXCEPT !.file = f, !.pc = "uploading",
                                        !.event = "download_other_file"])
    /\ UNCHANGED <<cartoons, saved, current_operation, pending, channel, urls_left, offered, forward_vars>>

\* Suspended at line 290 (the error edit inside download_youtube_video,
\* whose own failure is swallowed); the download returned None.
run_download_error(rid) ==
    LET r == runs[rid] IN
    /\ r.pc = "dl_err_edit"
    /\ \E edit_ok \in BOOLEAN :
          SetRun(rid, LoopHead(DownloadFailed(
              [r EXCEPT !.status = IF edit_ok THEN "download_error" ELSE @,
                        !.event = "download_error_reported"])))
    /\ UNCHANGED <<cartoons, saved, current_operation, pending, channel, urls_left, offered, forward_vars>>

\* Suspended at line 862 (status edit "Uploading") and then at line 869
\* (send_video); then lines 877-895 and the loop head.
run_upload(rid) ==
    LET r == runs[rid]
        s == [r EXCEPT !.status = "uploading", !.event = "send_ok"]
        t == [r EXCEPT !.status = "uploading", !.event = "send_raised"]
    IN
    /\ r.pc = "uploading"
    /\ \/ /\ SetRun(rid, [r EXCEPT !.pc = "except_edit", !.event = "edit_raised"])
          /\ UNCHANGED <<cartoons, saved, channel>>
       \/ /\ SetRun(rid, UploadFailed(t))
          /\ UNCHANGED <<cartoons, saved, channel>>
       \/ /\ channel' = Post(channel, r.videos[r.idx])
          /\ IF Has(cartoons, r.cartoon_name)
             THEN /\ cartoons' = RecordEpisode(cartoons, r.cartoon_name,
                                               r.current_ep, r.season)
                  /\ saved' = SaveCartoons(cartoons')
                  /\ SetRun(rid, LoopHead(NextEpisode(RemoveFile(Uploaded(s)))))
             ELSE /\ SetRun(rid, UploadFailed(Uploaded(s)))
                  /\ UNCHANGED <<cartoons, saved>>
    /\ UNCHANGED <<current_operation, pending, urls_left, offered, forward_vars>>

\* Suspended at line 893 (asyncio.sleep); then line 895 and the loop head.
run_sleep(rid) ==
    LET r == runs[rid] IN
    /\ r.pc = "sleep"
    /\ SetRun(rid, LoopHead(NextEpisode([r EXCEPT !.event = "slept"])))
    /\ UNCHANGED <<cartoons, saved, current_operation, pending, channel, urls_left, offered, forward_vars>>

\* Suspended at line 908 (the final summary); then lines 917 and 923-924.
run_final_edit(rid) ==
    LET r == runs[rid] IN
    /\ r.pc = "final_edit"
    /\ \/ /\ SetRun(rid, Finish(r, "returned", r.how, "complete"))
          /\ current_operation' = Release(current_operation)
       \/ /\ SetRun(rid, [r EXCEPT !.pc = "except_edit", !.event = "edit_raised"])
          /\ UNCHANGED current_operation
    /\ UNCHANGED <<cartoons, saved, pending, channel, urls_left, offered, forward_vars>>

\* Suspended at line 921 (the error report of the except block); when that
\* raises too the handler ends by the exception, before lines 923-924.
run_except_edit(rid) ==
    LET r == runs[rid] IN
    /\ r.pc = "except_edit"
    /\ \/ /\ SetRun(rid, Finish(r, "returned", "error", "error"))
          /\ current_operation' = Release(current_operation)
       \/ /\ SetRun(rid, Finish(r, "raised", "crashed", r.status))
          /\ UNCHANGED current_operation
    /\ UNCHANGED <<cartoons, saved, pending, channel, urls_left, offered, forward_vars>>

\* ------------------------------------------------------------- forward flow
\* The lowest free slot for a handler of a forwarded message; 0 when
\* MaxForwards were started.
FreeForward ==
    IF \E fid \in FwdIds : forwards[fid].pc = "idle"
    THEN CHOOSE fid \in FwdIds :
            /\ forwards[fid].pc = "idle"
            /\ \A other \in FwdIds : forwards[other].pc = "idle" => fid <= other
    ELSE 0

\* Lines 947-952: the locals of the session setup, up to its reply_text.
StartSetup(operation, m) ==
    [IdleForward EXCEPT !.pc = "setup_reply",
                        !.source = m.chat,
                        !.cartoon = operation["cartoon"],
                        !.audio_lang = Get(operation, "audio_lang", "None")]

\* Lines 1018-1025 and 1029-1050: the locals of the processing of one
\* forwarded message, up to its reply_text.
StartForward(sid, m) ==
    [IdleForward EXCEPT !.pc = "fw_reply",
                        !.sid = sid,
                        !.msg_id = m.id,
                        !.media = m.media,
                        !.title = TitleOf(m),
                        !.ep_info = extract_episode_info(TitleOf(m))[1],
                        !.season = extract_episode_info(TitleOf(m))[2],
                        !.ep_num = extract_episode_info(TitleOf(m))[3]]

\* Lines 1018-1019: the message id was already added to the session.
AlreadyProcessedNever(session, m) == FALSE

AlreadyProcessed(session, m) == m.id \in session.processed_ids

\* Lines 968-979.
NewSession(h) ==
    [active |-> TRUE, source_channel |-> h.source,
     dest_channel |-> h.dest_channel, cartoon |-> h.cartoon,
     series_name |-> h.series_name, thumbnail |-> h.thumbnail,
     audio_lang |-> h.audio_lang, success_count |-> 0, failed_count |-> 0,
     processed_ids |-> {}]

\* The handler has returned (or ended by an exception): its locals are gone.
FinishForward(pc, event) == [IdleForward EXCEPT !.pc = pc, !.event = event]

SetForward(fid, h) == forwards' = [forwards EXCEPT ![fid] = h]

\* session["success_count"] += 1 and session["failed_count"] += 1
CountSuccess(ss, sid) == [ss EXCEPT ![sid].success_count = @ + 1]
CountFailed(ss, sid) == [ss EXCEPT ![sid].failed_count = @ + 1]

\* Suspended at line 952 (reply_text, outside the try block); then lines
\* 955-960.
forward_setup_reply(fid) ==
    LET h == forwards[fid] IN
    /\ h.pc = "setup_reply"
    /\ \/ SetForward(fid, FinishForward("raised", "reply_raised"))
       \/ IF Has(cartoons, h.cartoon)
          THEN SetForward(fid,
                   [h EXCEPT !.pc = "setup_edit",
                             !.dest_channel = cartoons[h.cartoon].channel_id,
                             !.series_name =
                                 Get(cartoons[h.cartoon], "series_name", h.cartoon),
                             !.thumbnail = cartoons[h.cartoon].thumbnail])
          ELSE SetForward(fid, [h EXCEPT !.pc = "setup_error",
                                         !.event = "no_series"])
    /\ UNCHANGED <<cartoons, saved, current_operation, pending, runs, channel,
                   urls_left, offered, forward_sessions, sessions, posted,
                   forwards_left>>

\* Suspended at line 960 (the status edit); then lines 968-981: the session
\* is stored, and the step is set in whatever entry the owner has now.
forward_setup_edit(fid) ==
    LET h == forwards[fid] IN
    /\ h.pc = "setup_edit"
    /\ \/ /\ SetForward(fid, [h EXCEPT !.pc = "setup_error",
                                       !.event = "edit_raised"])
          /\ UNCHANGED <<current_operation, forward_sessions, sessions, posted>>
       \/ /\ sessions' = Append(sessions, NewSession(h))
          /\ posted' = Append(posted, [i \in MsgIds |-> 0])
          /\ forward_sessions' = Put(forward_sessions, OWNER_ID, Len(sessions) + 1)
          /\ IF /\ Has(current_operation, OWNER_ID)
                /\ IsDict(current_operation[OWNER_ID])
             THEN /\ current_operation' =
                         Put(current_operation, OWNER_ID,
                             Put(current_operation[OWNER_ID], "step",
                                 "forwarding_messages"))
                  /\ SetForward(fid, FinishForward("returned", "session_stored"))
             ELSE /\ UNCHANGED current_operation
                  /\ SetForward(fid, [h EXCEPT !.pc = "setup_error",
                                               !.event = "no_entry"])
    /\ UNCHANGED <<cartoons, saved, pending, runs, channel, urls_left, offered,
                   forwards_left>>

\* Suspended at line 985 (the error report of the setup's except block).
forward_setup_error(fid) ==
    LET h == forwards[fid] IN
    /\ h.pc = "setup_error"
    /\ \/ SetForward(fid, FinishForward("returned", h.event))
       \/ SetForward(fid, FinishForward("raised", h.event))
    /\ UNCHANGED <<cartoons, saved, current_operation, pending, runs, channel,
                   urls_left, offered, forward_sessions, sessions, posted,
                   forwards_left>>

\* Suspended at line 1025 (reply_text, outside the try block); then lines
\* 1029-1071 up to the status edit of line 1042 or the send_video.
forward_reply(fid) ==
    LET h == forwards[fid] IN
    /\ h.pc = "fw_reply"
    /\ \/ SetForward(fid, FinishForward("raised", "reply_raised"))
       \/ SetForward(fid, [h EXCEPT !.pc = IF h.media = "other"
                                           THEN "fw_not_video"
                                           ELSE "fw_sending"])
    /\ UNCHANGED <<cartoons, saved, current_operation, pending, runs, channel,
                   urls_left, offered, forward_sessions, sessions, posted,
                   forwards_left>>

\* Suspended at line 1042 (status edit "Not a video file"); then lines
\* 1043-1044, or the except blocks when the edit raised.
forward_not_video(fid) ==
    LET h == forwards[fid] IN
    /\ h.pc = "fw_not_video"
    /\ \/ /\ sessions' = CountFailed(sessions, h.sid)
          /\ SetForward(fid, FinishForward("returned", "not_video"))
       \/ /\ UNCHANGED sessions
          /\ SetForward(fid, [h EXCEPT !.pc = "fw_flood", !.event = "edit_flood"])
       \/ /\ sessions' = CountFailed(sessions, h.sid)
          /\ SetForward(fid, [h EXCEPT !.pc = "fw_error", !.event = "edit_raised"])
    /\ UNCHANGED <<cartoons, saved, current_operation, pending, runs, channel,
                   urls_left, offered, forward_sessions, posted, forwards_left>>

\* Suspended at line 1075 or 1084 (send_video); then line 1093, or the
\* except blocks.
forward_send(fid) ==
    LET h == forwards[fid] IN
    /\ h.pc = "fw_sending"
    /\ \/ /\ posted' = [posted EXCEPT ![h.sid][h.msg_id] = @ + 1]
          /\ sessions' = CountSuccess(sessions, h.sid)
          /\ SetForward(fid, [h EXCEPT !.pc = "fw_status", !.event = "send_ok"])
       \/ /\ UNCHANGED <<posted, sessions>>
          /\ SetForward(fid, [h EXCEPT !.pc = "fw_flood", !.event = "send_flood"])
       \/ /\ UNCHANGED posted
          /\ sessions' = CountFailed(sessions, h.sid)
          /\ SetForward(fid, [h EXCEPT !.pc = "fw_error", !.event = "send_raised"])
    /\ UNCHANGED <<cartoons, saved, current_operation, pending, runs, channel,
                   urls_left, offered, forward_sessions, forwards_left>>

\* Suspended at line 1094 (status edit "Forwarded!"); then lines 1097-1099,
\* or the except blocks when the edit raised or the series is gone.
forward_status(fid) ==
    LET h == forwards[fid]
        name == sessions[h.sid].cartoon
    IN
    /\ h.pc = "fw_status"
    /\ \/ IF Has(cartoons, name)
          THEN /\ cartoons' = RecordEpisode(cartoons, name, h.ep_num, h.season)
               /\ saved' = SaveCartoons(cartoons')
               /\ UNCHANGED sessions
               /\ SetForward(fid, [h EXCEPT !.pc = "fw_delete",
                                            !.event = "recorded"])
          ELSE /\ sessions' = CountFailed(sessions, h.sid)
               /\ UNCHANGED <<cartoons, saved>>
               /\ SetForward(fid, [h EXCEPT !.pc = "fw_error",
                                            !.event = "no_series"])
       \/ /\ UNCHANGED <<cartoons, saved, sessions>>
          /\ SetForward(fid, [h EXCEPT !.pc = "fw_flood", !.event = "edit_flood"])
       \/ /\ sessions' = CountFailed(sessions, h.sid)
          /\ UNCHANGED <<cartoons, saved>>
          /\ SetForward(fid, [h EXCEPT !.pc = "fw_error", !.event = "edit_raised"])
    /\ UNCHANGED <<current_operation, pending, runs, channel, urls_left, offered,
                   forward_sessions, posted, forwards_left>>

\* Suspended at line 1103 (message.delete, whose failure is swallowed).
forward_delete(fid) ==
    LET h == forwards[fid] IN
    /\ h.pc = "fw_delete"
    /\ SetForward(fid, FinishForward("returned", "recorded"))
    /\ UNCHANGED <<cartoons, saved, current_operation, pending, runs, channel,
                   urls_left, offered, forward_sessions, sessions, posted,
                   forwards_left>>

\* Suspended at line 1109 (the sleep of the FloodWait block).
forward_flood(fid) ==
    LET h == forwards[fid] IN
    /\ h.pc = "fw_flood"
    /\ SetForward(fid, FinishForward("returned", h.event))
    /\ UNCHANGED <<cartoons, saved, current_operation, pending, runs, channel,
                   urls_left, offered, forward_sessions, sessions, posted,
                   forwards_left>>

\* Suspended at line 1113 (the error report of the except block).
forward_error(fid) ==
    LET h == forwards[fid] IN
    /\ h.pc = "fw_error"
    /\ \/ SetForward(fid, FinishForward("returned", h.event))
       \/ SetForward(fid, FinishForward("raised", h.event))
    /\ UNCHANGED <<cartoons, saved, current_operation, pending, runs, channel,
                   urls_left, offered, forward_sessions, sessions, posted,
                   forwards_left>>

\* ---------------------------------------------------------- message handler
\* The lowest free slot for a playlist handler; 0 when MaxRuns were started.
FreeRun ==
    IF \E rid \in RunIds : runs[rid].pc = "idle"
    THEN CHOOSE rid \in RunIds :
            /\ runs[rid].pc = "idle"
            /\ \A other \in RunIds : runs[other].pc = "idle" => rid <= other
    ELSE 0

\* Lines 729-741: the range text parsed into the operation entry.
ApplyRange(operation, m) ==
    [k \in DOMAIN operation \cup {"step", "season", "episode_start", "episode_end"} |->
        CASE k = "step" -> "awaiting_yt_url"
          [] k = "season" -> m.season
          [] k = "episode_start" -> m.ep_start
          [] k = "episode_end" -> m.ep_end
          [] OTHER -> operation[k]]

\* The inputs modelled: a series name is typed as plain text, and no more
\* than urls_left playlist URLs are sent.
ForwardSteps ==
    {"awaiting_forward_msg", "forwarding_messages", "awaiting_auto_source"}

InputBound(step, m) ==
    /\ step \in {"awaiting_name", "awaiting_forward_lang"} /\ HasText(m)
          => m.kind = "text"
    /\ step = "awaiting_yt_url" /\ IsYouTubeUrl(m) => FreeRun # 0 /\ urls_left > 0
    /\ step \in ForwardSteps /\ IsForwarded(m)
          => FreeForward # 0 /\ forwards_left > 0

\* The step of the owner's entry, "None" when there is none to read.
StepNow ==
    IF Has(current_operation, OWNER_ID) /\ IsDict(current_operation[OWNER_ID])
    THEN Get(current_operation[OWNER_ID], "step", "None")
    ELSE "None"

\* A range text is sent only when the bot has asked for one, and a message
\* is forwarded only when it has asked for that; in any other step they are
\* one more text that is no URL and no number, and one more message without
\* text or photo.
OwnerMessages ==
    {m \in Messages :
        /\ IsRange(m) => StepNow = "awaiting_yt_range"
        /\ IsForwarded(m) => StepNow \in ForwardSteps}

\* Lines 1128-1133.
AutoConfig(m) ==
    [source_id |-> m.chat, source_title |-> m.chat, audio_lang |-> "None",
     enabled |-> TRUE]

\* message_handler up to its first await (or its return): the dispatch on
\* the step of the owner's operation entry.
handle_message(m) ==
        IF IsCommand(m) \/ ~ Has(current_operation, OWNER_ID)
        THEN UNCHANGED vars
        ELSE IF ~ IsDict(current_operation[OWNER_ID])
        THEN UNCHANGED vars
        ELSE
        LET operation == current_operation[OWNER_ID]
            step == Get(operation, "step", "None")
        IN
        /\ InputBound(step, m)
        /\ IF step = "awaiting_name"
           THEN IF HasText(m)
                THEN /\ current_operation' =
                            Put(current_operation, OWNER_ID,
                                Put(Put(operation, "cartoon", m.name),
                                    "step", "awaiting_channel"))
                     /\ UNCHANGED <<cartoons, saved, pending, runs, channel, urls_left, offered, forward_vars>>
                ELSE UNCHANGED vars
           ELSE IF step = "awaiting_channel"
           THEN IF IsChannelId(m)
                THEN /\ cartoons' = Put(cartoons, operation["cartoon"],
                                           NewSeries(operation["cartoon"], 100))
                     /\ current_operation' =
                            Put(current_operation, OWNER_ID,
                                Put(operation, "step", "awaiting_thumbnail"))
                     /\ offered' = offered \cup {<<"series", operation["cartoon"]>>}
                     /\ UNCHANGED <<saved, pending, runs, channel, urls_left, forward_vars>>
                ELSE UNCHANGED vars
           ELSE IF step = "awaiting_thumbnail"
           THEN IF m.kind = "photo"
                THEN /\ IF Has(cartoons, operation["cartoon"])
                        THEN /\ cartoons' = [cartoons EXCEPT
                                   ![operation["cartoon"]].thumbnail = "photo"]
                             /\ saved' = SaveCartoons(cartoons')
                        ELSE UNCHANGED <<cartoons, saved>>
                     /\ pending' = pending \cup {"awaiting_thumbnail"}
                     /\ UNCHANGED <<current_operation, runs, channel, urls_left, offered, forward_vars>>
                ELSE UNCHANGED vars
           ELSE IF step = "awaiting_yt_range"
           THEN IF IsRange(m)
                THEN /\ current_operation' =
                            Put(current_operation, OWNER_ID, ApplyRange(operation, m))
                     /\ UNCHANGED <<cartoons, saved, pending, runs, channel, urls_left, offered, forward_vars>>
                ELSE UNCHANGED vars
           ELSE IF step = "awaiting_yt_url"
           THEN IF IsYouTubeUrl(m)
                THEN /\ runs' = [runs EXCEPT ![FreeRun] = StartRun(operation)]
                     /\ urls_left' = urls_left - 1
                     /\ UNCHANGED <<cartoons, saved, current_operation, pending,
                                    channel, offered, forward_vars>>
                ELSE UNCHANGED vars
           ELSE IF step = "awaiting_forward_lang"
           THEN IF HasText(m)
                THEN /\ current_operation' =
                            Put(current_operation, OWNER_ID,
                                Put(Put(operation, "audio_lang", m.kind),
                                    "step", "awaiting_forward_msg"))
                     /\ UNCHANGED <<cartoons, saved, pending, runs, channel,
                                    urls_left, offered, forward_vars>>
                ELSE UNCHANGED vars
           ELSE IF step = "awaiting_forward_msg"
           THEN IF IsForwarded(m)
                THEN /\ forwards' = [forwards EXCEPT
                                        ![FreeForward] = StartSetup(operation, m)]
                     /\ forwards_left' = forwards_left - 1
                     /\ UNCHANGED <<cartoons, saved, current_operation, pending,
                                    runs, channel, urls_left, offered,
                                    forward_sessions, sessions, posted>>
                ELSE UNCHANGED vars
           ELSE IF step = "forwarding_messages"
           THEN IF IsDone(m)
                THEN /\ forward_sessions' = Release(forward_sessions)
                     /\ current_operation' = Del(current_operation, OWNER_ID)
                     /\ UNCHANGED <<cartoons, saved, pending, runs, channel,
                                    urls_left, offered, sessions, forwards, posted,
                                    forwards_left>>
                ELSE IF ~ Has(forward_sessions, OWNER_ID) \/ ~ IsForwarded(m)
                THEN UNCHANGED vars
                ELSE LET sid == forward_sessions[OWNER_ID] IN
                     IF m.chat # sessions[sid].source_channel
                     THEN UNCHANGED vars
                     ELSE IF AlreadyProcessed(sessions[sid], m)
                     THEN /\ forwards' = [forwards EXCEPT ![FreeForward] =
                                 FinishForward("returned", "duplicate")]
                          /\ forwards_left' = forwards_left - 1
                          /\ UNCHANGED <<cartoons, saved, current_operation,
                                         pending, runs, channel, urls_left,
                                         offered, forward_sessions, sessions,
                                         posted>>
                     ELSE /\ sessions' = [sessions EXCEPT
                                             ![sid].processed_ids = @ \cup {m.id}]
                          /\ forwards' = [forwards EXCEPT
                                             ![FreeForward] = StartForward(sid, m)]
                          /\ forwards_left' = forwards_left - 1
                          /\ UNCHANGED <<cartoons, saved, current_operation,
                                         pending, runs, channel, urls_left,
                                         offered, forward_sessions, posted>>
           ELSE IF step = "awaiting_auto_source"
           THEN IF IsForwarded(m) /\ Has(cartoons, operation["cartoon"])
                THEN /\ cartoons' = [cartoons EXCEPT
                           ![operation["cartoon"]].auto_forward =
                               Append(@, AutoConfig(m))]
                     /\ saved' = SaveCartoons(cartoons')
                     /\ current_operation' =
                            Put(current_operation, OWNER_ID,
                                Put(Put(operation, "auto_config", AutoConfig(m)),
                                    "step", "awaiting_auto_lang"))
                     /\ offered' = offered \cup {<<"auto", operation["cartoon"]>>}
                     /\ forwards_left' = forwards_left - 1
                     /\ UNCHANGED <<pending, runs, channel, urls_left,
                                    forward_sessions, sessions, forwards, posted>>
                ELSE UNCHANGED vars
           ELSE UNCHANGED vars

\* message_handler for some message the owner can send now.
message_handler == \E m \in OwnerMessages : handle_message(m)

\* The rest of the awaiting_thumbnail branch after its await of reply_text
\* (line 722): del current_operation[user_id], which raises when the entry
\* is gone.
awaiting_thumbnail_resume ==
    /\ "awaiting_thumbnail" \in pending
    /\ pending' = pending \ {"awaiting_thumbnail"}
    /\ \E reply_ok \in BOOLEAN :
          current_operation' =
              IF reply_ok THEN Release(current_operation) ELSE current_operation
    /\ UNCHANGED <<cartoons, saved, runs, channel, urls_left, offered, forward_vars>>

\* ------------------------------------------------------------ specification
\* The steps of the playlist handlers.
RunSteps ==
    \E rid \in RunIds :
        \/ run_fetch(rid)
        \/ run_rejecting(rid)
        \/ run_found(rid)
        \/ run_stop_edit(rid)
        \/ run_download(rid)
        \/ run_download_error(rid)
        \/ run_upload(rid)
        \/ run_sleep(rid)
        \/ run_final_edit(rid)
        \/ run_except_edit(rid)

\* The steps of the handlers of forwarded messages.
ForwardHandlerSteps ==
    \E fid \in FwdIds :
        \/ forward_setup_reply(fid)
        \/ forward_setup_edit(fid)
        \/ forward_setup_error(fid)
        \/ forward_reply(fid)
        \/ forward_not_video(fid)
        \/ forward_send(fid)
        \/ forward_status(fid)
        \/ forward_delete(fid)
        \/ forward_flood(fid)
        \/ forward_error(fid)

Next ==
    \/ stop_operation
    \/ callback_handler
    \/ skip_thumbnail_resume
    \/ message_handler
    \/ awaiting_thumbnail_resume
    \/ RunSteps
    \/ ForwardHandlerSteps

\* The whole bot, for one playlist URL and two forwarded messages. The
\* specifications below take the parts of Next that one flow needs.
Spec == Init /\ [][Next]_vars

\* The menus and the playlist flow from the fresh state, for one playlist
\* URL and no forwarded message.
InitPlaylist ==
    /\ Fresh
    /\ urls_left = 1
    /\ forwards_left = 0

NextPlaylist ==
    \/ stop_operation
    \/ callback_handler
    \/ skip_thumbnail_resume
    \/ message_handler
    \/ awaiting_thumbnail_resume
    \/ RunSteps

SpecPlaylist == InitPlaylist /\ [][NextPlaylist]_vars

\* The steps of the playlist handler rid.
RunStepsOf(rid) ==
    \/ run_fetch(rid)
    \/ run_rejecting(rid)
    \/ run_found(rid)
    \/ run_stop_edit(rid)
    \/ run_download(rid)
    \/ run_download_error(rid)
    \/ run_upload(rid)
    \/ run_sleep(rid)
    \/ run_final_edit(rid)
    \/ run_except_edit(rid)

\* Every call a playlist handler awaits (a reply, a status edit, send_video,
\* the sleep) and the blocking download eventually returns or raises: the
\* event loop resumes a handler that can go on.
SpecPlaylistFair ==
    SpecPlaylist /\ \A rid \in RunIds : WF_vars(RunStepsOf(rid))

\* Two playlist URLs sent while the owner's entry asks for one: the state
\* after the series A was added (thumbnail skipped) and its button pressed in
\* the download menu.
SeriesA == <<"A">>

Prepared(step) ==
    /\ cartoons = (SeriesA :> NewSeries(SeriesA, 100))
    /\ saved = cartoons
    /\ current_operation = (OWNER_ID :> [step |-> step, cartoon |-> SeriesA])
    /\ pending = {}
    /\ runs = [rid \in RunIds |-> IdleRun]
    /\ channel = [i \in Items |-> 0]
    /\ offered = {<<"series", SeriesA>>}
    /\ forward_sessions = EmptyDict
    /\ sessions = <<>>
    /\ forwards = [fid \in FwdIds |-> IdleForward]
    /\ posted = <<>>

InitTwo == Prepared("awaiting_yt_url") /\ urls_left = 2 /\ forwards_left = 0

\* The owner's messages and /stop, and the playlist handlers; no buttons.
NextRuns ==
    \/ stop_operation
    \/ message_handler
    \/ RunSteps

SpecTwo == InitTwo /\ [][NextRuns]_vars

\* The range flow from the state its menu branch (lines 474-479) stores; the
\* branch itself is shadowed by the yt_ branch in CallbackBranch.
InitRange == Prepared("awaiting_yt_range") /\ urls_left = 1 /\ forwards_left = 0

SpecRange == InitRange /\ [][NextRuns]_vars

\* The forward flow from the state the fwd_ branch (lines 506-511) stores
\* for the series A: the owner's messages and /stop, and the handlers of the
\* forwarded messages.
InitForward ==
    /\ Prepared("awaiting_forward_msg")
    /\ urls_left = 0
    /\ forwards_left = MaxForwards

NextForward ==
    \/ stop_operation
    \/ message_handler
    \/ ForwardHandlerSteps

SpecForward == InitForward /\ [][NextForward]_vars

\* ------------------------------------------------------- titles of episodes
\* Titles that carry a season and an episode in one of the combined forms:
\* the digits of the season and of the episode, written "S<s>E<e>",
\* "s<s> e<e>", "Season <s> Episode <e>", "season <s> ep <e>" and "<s>x<e>",
\* alone or with a word before or after.
SeasonDigits == {<<"1">>, <<"0", "2">>, <<"1", "0">>}

EpisodeDigits == {<<"4">>, <<"0", "4">>, <<"1", "2">>, <<"1", "0", "0">>}

CombinedForms(sd, ed) ==
    {<<"S">> \o sd \o <<"E">> \o ed,
     <<"s">> \o sd \o <<" ", "e">> \o ed,
     <<"S", "e", "a", "s", "o", "n", " ">> \o sd
         \o <<" ", "E", "p", "i", "s", "o", "d", "e", " ">> \o ed,
     <<"s", "e", "a", "s", "o", "n", " ">> \o sd \o <<" ", "e", "p", " ">> \o ed,
     sd \o <<"x">> \o ed}

Decorated(t) == {t, <<"T", " ">> \o t, t \o <<" ", "T">>, <<"T", " ">> \o t \o <<" ", "T">>}

CombinedTitlesOf(sd, ed) == UNION {Decorated(t) : t \in CombinedForms(sd, ed)}

CombinedTitles ==
    UNION {CombinedTitlesOf(sd, ed) : sd \in SeasonDigits, ed \in EpisodeDigits}

\* Titles without any marker: one to three words, separated by a blank,
\* each a number or the word "ab".
BareWords ==
    {<<"0">>, <<"5">>, <<"1", "2">>, <<"9", "9", "9">>, <<"1", "0", "0", "0">>,
     <<"a", "b">>}

WordLists == UNION {[1..n -> BareWords] : n \in 1..3}

RECURSIVE JoinWords(_)
JoinWords(ws) ==
    IF Len(ws) = 1 THEN ws[1]
    ELSE JoinWords(SubSeq(ws, 1, Len(ws) - 1)) \o <<" ">> \o ws[Len(ws)]

BareTitles == {JoinWords(ws) : ws \in WordLists}

TitleInputs == CombinedTitles \cup BareTitles

\* A video forwarded from the source channel with one of these captions.
TitledMessages ==
    {[kind |-> "forward", chat |-> "source", id |-> 1, media |-> "video",
      caption |-> t, file_name |-> NoText] : t \in TitleInputs}

\* The forward flow with a session open for the series A (the state after
\* the setup of lines 939-981), for one forwarded video.
SessionOpen ==
    /\ cartoons = (SeriesA :> NewSeries(SeriesA, 100))
    /\ saved = cartoons
    /\ current_operation =
           (OWNER_ID :> [step |-> "forwarding_messages", cartoon |-> SeriesA])
    /\ pending = {}
    /\ runs = [rid \in RunIds |-> IdleRun]
    /\ channel = [i \in Items |-> 0]
    /\ offered = {<<"series", SeriesA>>}
    /\ forward_sessions = Put(EmptyDict, OWNER_ID, 1)
    /\ sessions =
           <<NewSession([IdleForward EXCEPT !.source = "source",
                                            !.cartoon = SeriesA,
                                            !.series_name = SeriesA,
                                            !.dest_channel = 100])>>
    /\ forwards = [fid \in FwdIds |->
                      IF fid = 1 THEN FinishForward("returned", "session_stored")
                      ELSE IdleForward]
    /\ posted = <<[i \in MsgIds |-> 0]>>
    /\ urls_left = 0

InitTitles == SessionOpen /\ forwards_left = 1

titled_message == \E m \in TitledMessages : handle_message(m)

NextTitles ==
    \/ titled_message
    \/ \E fid \in FwdIds :
          \/ forward_reply(fid)
          \/ forward_send(fid)
          \/ forward_status(fid)
          \/ forward_delete(fid)
          \/ forward_flood(fid)
          \/ forward_error(fid)

SpecTitles == InitTitles /\ [][NextTitles]_vars

\* -------------------------------------------------------------- clean_title
\* Lines 141-166: the patterns clean_title removes, in the order of the
\* list: the forms with digits, then the literal words.
Form(kind) == [kind |-> kind, word |-> <<>>]
Literal(word) == [kind |-> "literal", word |-> word]

patterns_to_remove ==
    <<Form("S_E"), Form("Season_Episode"), Form("_x_"), Form("EP"),
      Form("EPISODE"), Form("E"), Form("[]"), Form("()"), Form("extension"),
      Form("-_-"), Form("leading"), Form("#"),
      Literal(<<"X", "2", "6", "4">>), Literal(<<"X", "2", "6", "5">>),
      Literal(<<"A", "A", "C">>), Literal(<<"M", "P", "3">>),
      Literal(<<"H", "D", "T", "V">>),
      Literal(<<"W", "E", "B", "-", "D", "L">>),
      Literal(<<"W", "E", "B", "R", "I", "P">>),
      Literal(<<"B", "L", "U", "R", "A", "Y">>),
      Literal(<<"D", "V", "D", "R", "I", "P">>),
      Literal(<<"4", "8", "0", "P">>), Literal(<<"7", "2", "0", "P">>),
      Literal(<<"1", "0", "8", "0", "P">>),
      Literal(<<"2", "1", "6", "0", "P">>), Literal(<<"4", "K">>)>>

\* Line 150: mp4|mkv|avi|mov|wmv|flv|webm|m4v|mpg|mpeg
Extensions ==
    {<<"M", "P", "4">>, <<"M", "K", "V">>, <<"A", "V", "I">>,
     <<"M", "O", "V">>, <<"W", "M", "V">>, <<"F", "L", "V">>,
     <<"W", "E", "B", "M">>, <<"M", "4", "V">>, <<"M", "P", "G">>,
     <<"M", "P", "E", "G">>}

\* The position after the match of pattern p that starts at position i of
\* the upper-cased title u (the patterns are matched with re.IGNORECASE),
\* 0 when p does not match there.  Every \d+ and \s* takes the longest run.
MatchEnd(p, u, i) ==
    LET d(k) == RunEnd(u, k, DigitClass)
        w(k) == RunEnd(u, k, SpaceClass)
        digits(k) == IF d(k) > k THEN d(k) ELSE 0
        closed(k, close) ==
            IF d(k) > k /\ d(k) <= Len(u) /\ u[d(k)] \in close
            THEN d(k) + 1 ELSE 0
        spaced(k, close) ==
            LET a == w(k)
                c == w(d(a))
            IN  IF d(a) > a /\ c <= Len(u) /\ u[c] \in close
                THEN c + 1 ELSE 0
    IN  CASE p.kind = "literal" ->
               IF At(u, i, p.word) THEN i + Len(p.word) ELSE 0
          \* S\d+E\d+
          [] p.kind = "S_E" ->
               LET b == d(i + 1)
               IN  IF At(u, i, <<"S">>) /\ b > i + 1 /\ At(u, b, <<"E">>)
                   THEN digits(b + 1) ELSE 0
          \* Season\s*\d+\s*Episode\s*\d+
          [] p.kind = "Season_Episode" ->
               LET a == w(i + 6)
                   c == w(d(a))
               IN  IF /\ At(u, i, <<"S", "E", "A", "S", "O", "N">>)
                      /\ d(a) > a
                      /\ At(u, c, <<"E", "P", "I", "S", "O", "D", "E">>)
                   THEN digits(w(c + 7)) ELSE 0
          \* \d+x\d+
          [] p.kind = "_x_" ->
               IF d(i) > i /\ At(u, d(i), <<"X">>)
               THEN digits(d(i) + 1) ELSE 0
          \* EP\.?\s*\d+
          [] p.kind = "EP" ->
               IF ~ At(u, i, <<"E", "P">>) THEN 0
               ELSE IF At(u, i + 2, <<".">>) THEN digits(w(i + 3))
               ELSE digits(w(i + 2))
          \* EPISODE\s*\d+
          [] p.kind = "EPISODE" ->
               IF At(u, i, <<"E", "P", "I", "S", "O", "D", "E">>)
               THEN digits(w(i + 7)) ELSE 0
          \* E\d+
          [] p.kind = "E" ->
               IF At(u, i, <<"E">>) THEN digits(i + 1) ELSE 0
          \* \[\d+\]
          [] p.kind = "[]" ->
               IF At(u, i, <<"[">>) THEN closed(i + 1, {"]"}) ELSE 0
          \* \(\d+\)
          [] p.kind = "()" ->
               IF At(u, i, <<"(">>) THEN closed(i + 1, {")"}) ELSE 0
          \* \.(mp4|...|mpeg)$
          [] p.kind = "extension" ->
               IF /\ At(u, i, <<".">>)
                  /\ \E x \in Extensions :
                        At(u, i + 1, x) /\ i + Len(x) = Len(u)
               THEN Len(u) + 1 ELSE 0
          \* -\s*\d+\s*-
          [] p.kind = "-_-" ->
               IF At(u, i, <<"-">>) THEN spaced(i + 1, {"-"}) ELSE 0
          \* ^\s*\d+\s*[-.]
          [] p.kind = "leading" ->
               IF i = 1 THEN spaced(1, {"-", "."}) ELSE 0
          \* #\d+
          [] p.kind = "#" ->
               IF At(u, i, <<"#">>) THEN digits(i + 1) ELSE 0

\* re.sub(pattern, '', s) from position i on: the matches are taken from
\* left to right and do not overlap; ends[i] is the end of the match at i.
RECURSIVE Remove(_, _, _)
Remove(s, ends, i) ==
    IF i > Len(s) THEN <<>>
    ELSE IF ends[i] > 0 THEN Remove(s, ends, ends[i])
    ELSE <<s[i]>> \o Remove(s, ends, i + 1)

\* Lines 168-169: the patterns from the k-th on, each removed from what the
\* ones before it left.
RECURSIVE RemovePatterns(_, _)
RemovePatterns(s, k) ==
    IF k > Len(patterns_to_remove) THEN s
    ELSE RemovePatterns(
             Remove(s, [i \in 1..Len(s) |->
                           MatchEnd(patterns_to_remove[k], Upper(s), i)], 1),
             k + 1)

\* re.sub(r'\s+', ' ', s) from position i on.
RECURSIVE CollapseSpaces(_, _)
CollapseSpaces(s, i) ==
    IF i > Len(s) THEN <<>>
    ELSE IF IsSpace(s[i])
    THEN <<" ">> \o CollapseSpaces(s, RunEnd(s, i, SpaceClass))
    ELSE <<s[i]>> \o CollapseSpaces(s, i + 1)

\* s without its leading and its trailing run of characters of class:
\* str.strip() of line 172, and the two anchored runs of line 173.
Strip(s, class) ==
    LET kept == {i \in 1..Len(s) : s[i] \notin class}
    IN  IF kept = {} THEN <<>>
        ELSE SubSeq(s, CHOOSE i \in kept : \A j \in kept : i <= j,
                       CHOOSE i \in kept : \A j \in kept : i >= j)

\* Lines 136-178, with remove_patterns left at its default.
clean_title(title) ==
    LET spaced == Strip(CollapseSpaces(RemovePatterns(title, 1), 1), SpaceClass)
        trimmed == Strip(spaced, {"-", ".", " ", "\t"})
    IN  [i \in 1..Len(trimmed) |->
            IF trimmed[i] \in {".", "_"} THEN " " ELSE trimmed[i]]

\* ----------------------------------------------------------------- captions
\* A caption is the sequence of its lines; a line is a record of its
\* fixed text (line) and of the values put into it.
Unknown == <<"U", "n", "k", "n", "o", "w", "n">>

\* Lines 124-133.
format_duration(seconds) ==
    IF Truthy(seconds)
    THEN LET minutes == seconds \div 60
             hours == minutes \div 60
             mins == minutes % 60
         IN  IF hours > 0
             THEN Str(hours) \o <<"h", " ">> \o Str(mins) \o <<"m">>
             ELSE Str(minutes) \o <<" ", "m", "i", "n">>
    ELSE Unknown

\* The header line of lines 187-189 and 1056-1058.
HeaderLine(episode_num, season) ==
    IF season > 1
    THEN [line |-> "Season Episode", season |-> season, episode |-> episode_num]
    ELSE [line |-> "Episode", episode |-> episode_num]

\* Lines 197-198 and 1069-1070.
FooterLines == <<[line |-> "Quality"], [line |-> ""], [line |-> "#cartoon #episode"]>>

\* Lines 184-186: the cleaned title, or the first 50 characters of the
\* title when cleaning leaves nothing or fewer than 3 characters.
CaptionTitle(title) ==
    LET clean_title_text == clean_title(title)
    IN  IF Len(clean_title_text) < 3 THEN PySlice(title, 0, 50)
        ELSE clean_title_text

\* Lines 181-202; audio_lang is "None" when no language is given.
create_caption(episode_num, title, series_name, duration, audio_lang, season) ==
    <<HeaderLine(episode_num, season),
      [line |-> "Series", text |-> series_name],
      [line |-> "Title", text |-> CaptionTitle(title)],
      [line |-> "Duration", text |-> duration]>>
    \o (IF audio_lang # "None"
        THEN <<[line |-> "Audio", text |-> audio_lang]>> ELSE <<>>)
    \o FooterLines

\* Lines 1053-1070: the caption the forward flow builds itself, its title
\* line from clean_title alone; duration is the video's duration, None for a
\* document.
forward_caption(ep_num, season, title, series_name, duration, audio_lang) ==
    <<HeaderLine(Format02(ep_num), season),
      [line |-> "Series", text |-> series_name],
      [line |-> "Title", text |-> clean_title(title)]>>
    \o (IF Truthy(duration)
        THEN <<[line |-> "Duration", text |-> format_duration(duration)]>>
        ELSE <<>>)
    \o (IF audio_lang # "None"
        THEN <<[line |-> "Audio", text |-> audio_lang]>> ELSE <<>>)
    \o FooterLines

\* The title of a download: info['title'] of yt-dlp (lines 276 and 280), a
\* string that may be empty, or None; "Unknown" stands in line 280 for a
\* missing key.  LongTitle has 54 characters, all of them removed by
\* clean_title.
EmptyTitle == <<>>
NullTitle == <<"None">>
LongTitle ==
    [i \in 1..54 |-> <<"S", "0", "1", "E", "0", "1">>[((i - 1) % 6) + 1]]

ResultTitles ==
    {EmptyTitle, Unknown, LongTitle,
     <<"T", "o", "m">>, <<"S", "2", "E", "1", " ", "x">>}

\* The durations of the media: result['duration'] of a download (line 281)
\* and message.video.duration are a number of seconds, 0 or None; a
\* document has none (lines 1038-1041).
Durations == {None, 0, 59, 125, 3725}

DurationsOf(media) == IF media = "video" THEN Durations ELSE {None}

\* ------------------------------------------------------------------ claims
\* A step of the playlist handler rid (every segment moves pc or idx).
RunStepOf(rid) ==
    \/ runs'[rid].pc # runs[rid].pc
    \/ runs'[rid].idx # runs[rid].idx

DownloadFailureEvents ==
    {"download_none", "download_no_file", "download_error_reported"}

\* C1: at most one playlist run is active per owner: a URL sent while a run
\* is in progress starts no second item loop.
C1_OneItemLoopPerOwner ==
    \A r1 \in RunIds, r2 \in RunIds :
        r1 # r2 => ~ (InLoop(runs[r1]) /\ InLoop(runs[r2]))

\* C2: once /stop has been handled while an item of a run is in flight (and
\* has stored the stop value), that run starts no further item, whatever
\* else the owner does.
C2_NoItemAfterStop ==
    [][\A rid \in RunIds :
          runs[rid].stop_handled => runs'[rid].idx <= runs[rid].idx]_vars

\* C3: whenever the playlist handler returns, the owner's entry is absent.
C3_ReturnReleases ==
    [][\A rid \in RunIds :
          Active(runs[rid]) /\ runs'[rid].pc = "returned"
              => ~ Has(current_operation', OWNER_ID)]_vars

\* C4: no source item is published twice for the series, also when the
\* playlist is run a second time.
C4_PublishedAtMostOnce == \A i \in Items : channel[i] <= 1

\* C5: at every loop boundary success_count + failed_count equals the number
\* of items visited so far.
C5_CountsMatchVisited ==
    \A rid \in RunIds :
        LET r == runs[rid] IN
        /\ r.pc = "dl_status" => r.success_count + r.failed_count = r.idx - 1
        /\ r.pc \in {"stop_edit", "final_edit"}
              => r.success_count + r.failed_count = r.idx

\* C6: a failed download adds one to failed_count and changes neither
\* success_count, nor the running episode number, nor the series record, nor
\* the channel; the run goes on with the next item (or to its end when there
\* is none, or to the stop report when the stop value is seen).
C6_DownloadFailure ==
    [][\A rid \in RunIds :
          LET r == runs[rid]
              q == runs'[rid]
          IN  /\ RunStepOf(rid)
              /\ r.pc \in {"dl_status", "dl_err_edit"}
              /\ q.event \in DownloadFailureEvents
              => /\ q.failed_count = r.failed_count + 1
                 /\ q.success_count = r.success_count
                 /\ q.current_ep = r.current_ep
                 /\ cartoons' = cartoons
                 /\ saved' = saved
                 /\ channel' = channel
                 /\ q.published = r.published
                 /\ q.pc \in {"dl_status", "stop_edit", "final_edit"}
                 /\ q.pc = "dl_status" => q.idx = r.idx + 1
                 /\ q.pc = "final_edit" => r.idx = r.total]_vars

C6_Witness ==
    \E rid \in RunIds :
        /\ runs[rid].pc = "dl_status"
        /\ runs[rid].idx = 2
        /\ runs[rid].failed_count = 1
        /\ runs[rid].event \in DownloadFailureEvents

\* C7: a failed send_video adds one to failed_count, leaves success_count and
\* the series record as they were, and does not end the run: after the pause
\* of line 893 the loop goes on with the next item.
C7_UploadFailure ==
    [][\A rid \in RunIds :
          LET r == runs[rid]
              q == runs'[rid]
          IN  /\ (RunStepOf(rid) /\ r.pc = "uploading" /\ q.event = "send_raised"
                  => /\ q.failed_count = r.failed_count + 1
                     /\ q.success_count = r.success_count
                     /\ cartoons' = cartoons
                     /\ saved' = saved
                     /\ channel' = channel
                     /\ q.pc = "sleep"
                     /\ q.idx = r.idx)
              /\ (RunStepOf(rid) /\ r.pc = "sleep"
                  => /\ q.failed_count = r.failed_count
                     /\ q.success_count = r.success_count
                     /\ q.pc \in {"dl_status", "stop_edit", "final_edit"}
                     /\ q.pc = "dl_status" => q.idx = r.idx + 1
                     /\ q.pc = "final_edit" => r.idx = r.total)]_vars

C7_Witness ==
    \E rid \in RunIds :
        /\ runs[rid].pc = "dl_status"
        /\ runs[rid].idx = 2
        /\ runs[rid].event = "slept"
        /\ runs[rid].failed_count = 1
        /\ runs[rid].success_count = 0

\* C8: the running episode number is episode_start plus the number of items
\* published so far, so the published episode numbers are consecutive from
\* episode_start.
C8_EpisodeAdvancesOnPublishOnly ==
    \A rid \in RunIds :
        LET r == runs[rid] IN
        /\ r.pc \in {"dl_status", "stop_edit", "final_edit"}
              => r.current_ep = r.ep_start + Len(r.published)
        /\ \A k \in 1..Len(r.published) : r.published[k].ep = r.ep_start + k - 1

C10_PublishRecordsEpisode ==
    [][/\ \A rid \in RunIds :
             LET r == runs[rid] IN
             /\ RunStepOf(rid)
             /\ r.pc = "uploading"
             /\ runs'[rid].event = "send_ok"
             => /\ Has(cartoons', r.cartoon_name)
                /\ cartoons'[r.cartoon_name].last_episode = r.current_ep
                /\ cartoons'[r.cartoon_name].last_season = r.season
                /\ saved' = cartoons'
       /\ \A fid \in FwdIds :
             LET h == forwards[fid] IN
             /\ h.pc = "fw_status"
             /\ forwards'[fid].pc # "fw_status"
             => /\ Has(cartoons', sessions[h.sid].cartoon)
                /\ cartoons'[sessions[h.sid].cartoon].last_episode = h.ep_num
                /\ cartoons'[sessions[h.sid].cartoon].last_season = h.season
                /\ saved' = cartoons']_vars

\* C11: in every reachable state every series record has last_season >= 1
\* and last_episode >= 0.
C11_SeasonAndEpisodeInRange ==
    \A name \in DOMAIN cartoons :
        /\ cartoons[name].last_season >= 1
        /\ cartoons[name].last_episode >= 0

\* C12: in a forward session a message id is in processed_ids only if a
\* send_video for that message has already succeeded in that session.
C12_ProcessedOnlyAfterPublish ==
    \A sid \in 1..Len(sessions) :
        \A id \in sessions[sid].processed_ids : posted[sid][id] >= 1

\* C13: a forwarded message whose id is already in the session's
\* processed_ids ends its handler at once, with nothing posted and the
\* session's counts as they were; a handler goes on to process a message
\* only when its id was not yet in processed_ids; and so no message id is
\* posted more than once in one session.
C13_DuplicateSkipped ==
    [][/\ \A fid \in FwdIds :
            /\ forwards[fid].pc = "idle"
            /\ forwards'[fid].event = "duplicate"
            => UNCHANGED <<sessions, posted, cartoons, saved>>
       /\ \A fid \in FwdIds :
            /\ forwards[fid].pc = "idle"
            /\ forwards'[fid].pc = "fw_reply"
            => forwards'[fid].msg_id
                   \notin sessions[forwards'[fid].sid].processed_ids
       /\ \A sid \in 1..Len(posted') :
            \A id \in MsgIds : posted'[sid][id] <= 1]_vars

C13_Witness ==
    \E fid \in FwdIds, sid \in 1..Len(sessions), id \in MsgIds :
        /\ forwards[fid].event = "duplicate"
        /\ id \in sessions[sid].processed_ids
        /\ posted[sid][id] = 1

\* C14: when a playlist run that has entered its item loop ends, by
\* whichever path, the last status shown to the owner is the one that
\* reports the total, uploaded and failed counts (the summary of line 908).
C14_LastStatusReportsCounts ==
    [][\A rid \in RunIds :
          /\ Active(runs[rid])
          /\ runs[rid].idx >= 1
          /\ runs'[rid].pc \in {"returned", "raised"}
          => runs'[rid].status = "complete"]_vars

\* The run rid has failed in its setup: it is reporting a rejection (no
\* playlist, or no item selected), or it is in the except block because the
\* enumeration raised or the series has no record.
SetupFailed(r) ==
    \/ r.pc = "rejecting"
    \/ r.pc = "except_edit" /\ r.event \in {"extract_raised", "no_series"}

\* C15: a run whose setup failed has downloaded and published nothing, its
\* remaining steps lead to its end only, and the step that finds the failure
\* and the steps after it change no series record, nor the saved file, nor
\* the channel.
C15_SetupFailureEndsRun ==
    [][\A rid \in RunIds :
          LET r == runs[rid]
              q == runs'[rid]
          IN  /\ (RunStepOf(rid) /\ SetupFailed(q)
                     => /\ q.idx = 0 /\ q.files = {} /\ q.published = <<>>
                        /\ UNCHANGED <<cartoons, saved, channel>>)
              /\ (RunStepOf(rid) /\ SetupFailed(r)
                     => /\ q.pc \in {"except_edit", "returned", "raised"}
                        /\ q.idx = 0 /\ q.files = {} /\ q.published = <<>>
                        /\ UNCHANGED <<cartoons, saved, channel>>)]_vars

C15_Witness ==
    \E rid \in RunIds :
        /\ runs[rid].pc = "except_edit"
        /\ runs[rid].event = "no_series"
        /\ runs[rid].total >= 1
        /\ cartoons # EmptyDict

\* C16: when the loop of a playlist run is between items (it is starting
\* the next item, reporting the stop, or at the summary), no file downloaded
\* for an item it has passed is left in the run's download directory.
C16_NoFileLeftBehind ==
    \A rid \in RunIds :
        runs[rid].pc \in {"dl_status", "stop_edit", "final_edit"}
            => runs[rid].files = {}

\* The text "/done".
DoneMessage == [kind |-> "done"]

\* C17: in step forwarding_messages with a forward session open, the
\* handling of the owner's text /done removes forward_sessions[owner] and
\* current_operation[owner].
C17_DoneEndsSession ==
    StepNow = "forwarding_messages" /\ Has(forward_sessions, OWNER_ID)
        => ENABLED (/\ handle_message(DoneMessage)
                    /\ ~ Has(forward_sessions', OWNER_ID)
                    /\ ~ Has(current_operation', OWNER_ID))

\* The lines a caption has to have, in their order: the header (naming the
\* season only if season > 1), the series name, the title, the duration
\* ("Unknown" when it is not known), the audio language only if one was
\* set, the quality.
CaptionKinds(audio_lang) ==
    <<"Header", "Series", "Title", "Duration">>
    \o (IF audio_lang # "None" THEN <<"Audio">> ELSE <<>>)
    \o <<"Quality">>

KindOf(l) == IF l.line \in {"Episode", "Season Episode"} THEN "Header" ELSE l.line

CaptionInOrder(caption, season, duration, audio_lang) ==
    LET kinds == CaptionKinds(audio_lang) IN
    /\ Len(caption) >= Len(kinds)
    /\ \A k \in 1..Len(kinds) : KindOf(caption[k]) = kinds[k]
    /\ caption[1].line = "Season Episode" <=> season > 1
    /\ ~ Truthy(duration) => caption[4].text = Unknown

\* C18: every caption published by the playlist flow and by the forward
\* flow has, in this order, the header line (with the season only if season
\* > 1), the series line, the title line, a duration line ("Unknown" when
\* the duration is not known), the audio line only if a language was set,
\* and the quality line.
C18_CaptionLines ==
    [][/\ \A rid \in RunIds :
            LET r == runs[rid] IN
            /\ RunStepOf(rid)
            /\ r.pc = "uploading"
            /\ runs'[rid].event = "send_ok"
            => \A d \in Durations, title \in ResultTitles :
                  CaptionInOrder(create_caption(Format02(r.current_ep), title,
                                                r.cartoon_name, format_duration(d),
                                                "None", r.season),
                                 r.season, d, "None")
       /\ \A fid \in FwdIds :
            LET h == forwards[fid] IN
            /\ h.pc = "fw_sending"
            /\ forwards'[fid].pc = "fw_status"
            => \A d \in DurationsOf(h.media) :
                  CaptionInOrder(forward_caption(h.ep_num, h.season, h.title,
                                                 sessions[h.sid].series_name, d,
                                                 sessions[h.sid].audio_lang),
                                 h.season, d, sessions[h.sid].audio_lang)]_vars

\* C19: a title in a combined season and episode form gives the season s
\* and, as episode label, the episode number e padded with zeros to two
\* digits ("S01E04 Title" gives season 1 and label "04").
C19_CombinedFormLabel ==
    \A fid \in FwdIds :
        \A sd \in SeasonDigits, ed \in EpisodeDigits :
            forwards[fid].title \in CombinedTitlesOf(sd, ed)
                => /\ forwards[fid].season = ToInt(sd)
                   /\ forwards[fid].ep_info = Format02(ToInt(ed))

\* The bare integers of a title made of words: its words that are numbers.
IsNumberWord(w) == \A k \in 1..Len(w) : IsDigit(w[k])

InRangeWords(ws) ==
    {k \in 1..Len(ws) :
        IsNumberWord(ws[k]) /\ ToInt(ws[k]) >= 1 /\ ToInt(ws[k]) <= 999}

\* C20: for a title that no marker rule matches, the episode label is the
\* first bare integer of the title that lies in 1..999, padded with zeros,
\* and the season is 1; the label is the default "01" only when the title
\* has no bare integer in that range.
C20_FirstBareIntegerInRange ==
    \A fid \in FwdIds :
        \A ws \in WordLists :
            forwards[fid].title = JoinWords(ws)
                => /\ forwards[fid].season = 1
                   /\ forwards[fid].ep_info =
                          IF InRangeWords(ws) = {} THEN DefaultEpisode[1]
                          ELSE Format02(ToInt(ws[CHOOSE k \in InRangeWords(ws) :
                                       \A j \in InRangeWords(ws) : k <= j]))

\* Line 87: title.upper() of a title that is None raises AttributeError
\* (inside the try block of download_youtube_video when called at line 276).
UpperRaises(title) == title = NullTitle

TitleLine(caption) == caption[3].text

\* C21: title extraction tolerates the empty and the null title: the download
\* step gets episode label "01" and season 1 for them without an exception,
\* and the caption published for an item with an empty title shows a
\* non-empty placeholder in its title line.
C21_EmptyAndNullTitle ==
    [][\A rid \in RunIds :
          LET r == runs[rid] IN
          /\ /\ r.pc = "dl_status"
             /\ runs'[rid].event \in {"download_ok", "download_raised"}
             => \A title \in {EmptyTitle, NullTitle} :
                   /\ ~ UpperRaises(title)
                   /\ extract_episode_info(title)[1] = <<"0", "1">>
                   /\ extract_episode_info(title)[2] = 1
          /\ /\ r.pc = "uploading"
             /\ runs'[rid].event = "send_ok"
             => TitleLine(create_caption(Format02(r.current_ep), EmptyTitle,
                                         r.cartoon_name, Unknown, "None",
                                         r.season)) # <<>>]_vars

\* C22: whenever cleaning a title leaves fewer than 3 characters (or none),
\* the title line of the published caption is the complete original title,
\* in the playlist flow and in the forward flow.
C22_ShortCleanTitleFallsBack ==
    [][/\ \A rid \in RunIds :
            LET r == runs[rid] IN
            /\ r.pc = "uploading"
            /\ runs'[rid].event = "send_ok"
            => \A title \in ResultTitles :
                  Len(clean_title(title)) < 3
                  => TitleLine(create_caption(Format02(r.current_ep), title,
                                              r.cartoon_name, Unknown, "None",
                                              r.season)) = title
       /\ \A fid \in FwdIds :
            LET h == forwards[fid] IN
            /\ h.pc = "fw_sending"
            /\ forwards'[fid].pc = "fw_status"
            /\ Len(clean_title(h.title)) < 3
            => TitleLine(forward_caption(h.ep_num, h.season, h.title,
                                         sessions[h.sid].series_name, None,
                                         sessions[h.sid].audio_lang)) = h.title]_vars

\* C23: a /stop handled while an item of a run is being downloaded or
\* uploaded does not interrupt that item: with the stop value stored, the
\* upload that succeeds still publishes and counts the item, and the run
\* turns to its stop report only in a step that has finished the item (the
\* loop head that follows it).
C23_StopDoesNotInterruptItem ==
    [][\A rid \in RunIds :
          LET r == runs[rid]
              q == runs'[rid]
          IN  StopObserved /\ InLoop(r) /\ RunStepOf(rid)
              => /\ r.pc = "uploading" /\ q.event = "send_ok"
                    => /\ q.success_count = r.success_count + 1
                       /\ Len(q.published) = Len(r.published) + 1
                       /\ channel' = Post(channel, r.videos[r.idx])
                 /\ q.pc = "stop_edit"
                    => /\ q.idx = r.idx
                       /\ \/ q.success_count + q.failed_count
                               > r.success_count + r.failed_count
                          \/ r.pc = "sleep"]_vars

C23_Witness ==
    \E rid \in RunIds :
        /\ runs[rid].pc = "stop_edit"
        /\ runs[rid].stop_handled
        /\ runs[rid].event = "send_ok"
        /\ runs[rid].success_count = 1
        /\ channel[runs[rid].videos[runs[rid].idx]] = 1

\* The owner presses the button with the given callback data, which a
\* keyboard on the screen offers.
Pressed(data) ==
    /\ data \in Available
    /\ \E edit_ok \in BOOLEAN : handle_callback(data, edit_ok)

\* C24: pressing "Continue Season" for a series X puts the owner's operation
\* into step awaiting_yt_url with cartoon X, season X's last_season and
\* episode_start X's last_episode + 1; "New Season" stores cartoon X with
\* season 1 and episode_start 1, and "Specific Episode Range" stores step
\* awaiting_yt_range with cartoon X.
C24_SeasonButtonsStoreSeries ==
    [][\A n \in Names :
          LET op == current_operation'[OWNER_ID] IN
          /\ Pressed(<<"yt", "season", "continue">> \o n) /\ Has(cartoons, n)
             => /\ Has(current_operation', OWNER_ID)
                /\ op = [step |-> "awaiting_yt_url", cartoon |-> n,
                         season |-> cartoons[n].last_season,
                         episode_start |-> cartoons[n].last_episode + 1]
          /\ Pressed(<<"yt", "season", "new">> \o n)
             => /\ Has(current_operation', OWNER_ID)
                /\ op = [step |-> "awaiting_yt_url", cartoon |-> n,
                         season |-> 1, episode_start |-> 1]
          /\ Pressed(<<"yt", "season", "range">> \o n)
             => /\ Has(current_operation', OWNER_ID)
                /\ op = [step |-> "awaiting_yt_range", cartoon |-> n]]_vars

\* C25: when the owner has chosen series X for forwarding (the entry is in
\* step awaiting_forward_msg with cartoon X) and presses one of the two
\* language buttons of X, the entry's cartoon is still X afterwards.
C25_LanguageButtonsKeepSeries ==
    [][\A n \in Names :
          /\ Has(current_operation, OWNER_ID)
          /\ current_operation[OWNER_ID] =
                 [step |-> "awaiting_forward_msg", cartoon |-> n]
          /\ \/ Pressed(<<"fwd", "lang">> \o n)
             \/ Pressed(<<"fwd", "nolang">> \o n)
          => /\ Has(current_operation', OWNER_ID)
             /\ Has(current_operation'[OWNER_ID], "cartoon")
             /\ current_operation'[OWNER_ID].cartoon = n]_vars

\* C26: a forwarded video of a session is counted exactly once: the step
\* that learns the outcome of send_video (success, flood-wait or another
\* error) adds one to exactly one of success_count and failed_count, and no
\* later step of the same handler changes either counter, also when the
\* destination series was removed meanwhile.
C26_CountedExactlyOnce ==
    [][\A fid \in FwdIds :
          LET h == forwards[fid]
              before == sessions[h.sid]
              after == sessions'[h.sid]
          IN  forwards'[fid] # h
              => /\ h.pc = "fw_sending"
                    => \/ /\ after.success_count = before.success_count + 1
                          /\ after.failed_count = before.failed_count
                       \/ /\ after.success_count = before.success_count
                          /\ after.failed_count = before.failed_count + 1
                 /\ h.pc \in {"fw_status", "fw_delete", "fw_flood", "fw_error"}
                    => /\ after.success_count = before.success_count
                       /\ after.failed_count = before.failed_count]_vars

\* C27: the owner's entry holds the value "stopped" only while a playlist
\* run of the owner is inside its item loop, where the loop head will read
\* it; so the message handler never meets an entry it cannot dispatch on.
C27_StoppedOnlyDuringRun ==
    StopObserved => \E rid \in RunIds : InLoop(runs[rid])

\* C28: in a playlist run the file uploaded for an item is the file that
\* the download of this item produced, never a file that an earlier item
\* left in the download directory.
C28_UploadsOwnFile ==
    [][\A rid \in RunIds :
          LET r == runs[rid] IN
          /\ r.pc = "uploading"
          /\ runs'[rid].event = "send_ok"
          => r.file = r.videos[r.idx]]_vars

\* C29: the end of a playlist run removes only the run's own entry: an entry
\* that a menu button stored while the run was in progress (its step is not
\* the run's awaiting_yt_url) is still there, unchanged, when the handler
\* has returned.
C29_RunEndKeepsNewerEntry ==
    [][\A rid \in RunIds :
          /\ Active(runs[rid])
          /\ runs'[rid].pc = "returned"
          /\ Has(current_operation, OWNER_ID)
          /\ IsDict(current_operation[OWNER_ID])
          /\ current_operation[OWNER_ID].step # "awaiting_yt_url"
          => /\ Has(current_operation', OWNER_ID)
             /\ current_operation'[OWNER_ID] = current_operation[OWNER_ID]]_vars

\* C30: no forward session is orphaned: whenever forward_sessions holds a
\* session for the owner, the owner's operation entry is a record in step
\* forwarding_messages for the session's series.
C30_NoOrphanSession ==
    Has(forward_sessions, OWNER_ID)
    => /\ Has(current_operation, OWNER_ID)
       /\ IsDict(current_operation[OWNER_ID])
       /\ current_operation[OWNER_ID].step = "forwarding_messages"
       /\ current_operation[OWNER_ID].cartoon
              = sessions[forward_sessions[OWNER_ID]].cartoon

\* No handler is between two of its awaits: no playlist handler and no
\* handler of a forwarded message has started without ending, and no
\* thumbnail or skip handler waits for its reply.
Quiescent ==
    /\ pending = {}
    /\ \A rid \in RunIds : ~ Active(runs[rid])
    /\ \A fid \in FwdIds : forwards[fid].pc \in {"idle", "returned", "raised"}

\* C31: whenever no handler is in the middle of executing, the saved series
\* store equals the in-memory cartoons mapping.
C31_SavedEqualsCartoons == Quiescent => saved = cartoons

\* C32: every playlist run over a finite playlist terminates when each of
\* its calls returns or raises: the loop index only goes up, one item at a
\* time and never past the number of candidate items, and a handler that
\* has started eventually returns or ends by an exception.
C32_RunTerminates ==
    /\ [][\A rid \in RunIds :
             LET r == runs[rid]
                 q == runs'[rid]
             IN  Active(r) /\ Active(q)
                 => /\ q.idx \in {r.idx, r.idx + 1}
                    /\ q.idx <= q.total
                    /\ RunStepOf(rid) /\ q.pc = "dl_status"
                       => q.idx = r.idx + 1]_vars
    /\ \A rid \in RunIds :
          Active(runs[rid]) ~> runs[rid].pc \in {"returned", "raised"}

C32_Witness ==
    \E rid \in RunIds :
        /\ runs[rid].pc = "returned"
        /\ runs[rid].how = "complete"
        /\ channel = [i \in Items |-> 1]

====
